---- MODULE Spec2Model ----
(***************************************************************************)
(* Matrix multiplication samples (plain C, OpenMP, pthread, MPI, OpenCL).  *)
(* One state machine per program; the variable prog says which program a   *)
(* behaviour runs.  Matrices are flat row-major functions 0..len-1 -> word, *)
(* words are kept modulo WordMod (the element width, scaled down).          *)
(***************************************************************************)
EXTENDS Integers, Sequences, FiniteSets, TLC

VARIABLES
    prog,      \* which program runs: "pthread", "c", "omp", "mpi", "cl"
    m, n, w,   \* the multiply call's row size, column size, second row size
    threads,   \* requested number of workers
    mat1, mat2,\* the operands
    result,    \* the output buffer (mat3 of main)
    pc,        \* position of the calling thread inside the entry point
    ret,       \* return value of the entry point: "none" until it returns, "0", "-1"
    created,   \* pthread: number of workers created so far (loop index i)
    joined,    \* pthread: number of workers joined so far
    wstate,    \* pthread: worker idx -> "none" | "run" | "done"
    wpos,      \* pthread: worker idx -> number of cells it has written
    writers,   \* history: output cell -> set of workers that wrote it
    run,       \* history: 1 for the first run of the program, 2 for a re-run
    first,     \* history: the result matrix the first run left
    junk,      \* the word a read outside a buffer / of unwritten memory yields
    oob,       \* history: TRUE once a store went outside the result buffer
    wrow,      \* omp: thread -> row of the outer loop it is in
    world_size,\* mpi: number of ranks
    rpc,       \* mpi: rank -> position in main / mat_mult_mpi
    rret,      \* mpi: rank -> return value of mat_mult_mpi: "none", "0", "-1"
    rmat1,     \* mpi: rank -> its mat1 buffer
    rmat2,     \* mpi: rank -> its mat2 buffer
    rmat3,     \* mpi: rank -> its mat3 (result) buffer
    res,       \* mpi: rank -> its partial-result buffer res
    chanScatter, \* mpi: rank -> slice of mat1 sent to it by the root's Scatter
    chanBcast, \* mpi: rank -> copy of mat2 sent to it by the root's Bcast
    chanGather,\* mpi: rank -> slice it contributed to the Gather
    allocd,    \* mpi history: ranks that allocated their matrices
    clog,      \* mpi history: rank -> its calls so far, each <<kind, root, count>>
    kernel,    \* cl: the kernel enqueued: "matmult", "matmult2", "matmult3"
    gfirst,    \* cl: index of the work-group the device runs first
    gcount,    \* cl: number of work-groups that have finished
    ipc,       \* cl: work-item (local id) of the running group -> position
    iter,      \* cl: work-item -> block steps it has accumulated
    tmp,       \* cl: work-item -> its private accumulator tmp
    local_row, \* cl: __local array local_row of the running group
    local_col, \* cl: __local array local_col of the running group
    hi, hdi, hki, \* cl host: loop indices i (platform), di (device), ki (kernel)
    nb_platforms, \* cl host: number of platforms found
    nb_devices,\* cl host: number of devices of the current platform
    nb_kernels,\* cl host: number of kernels of the current program
    success,   \* cl host: the success flag of mat_mult_cl
    finished,  \* cl host history: kernel runs that reached clFinish
    pseen, dseen, kseen, \* cl host history: loop bodies entered per loop
    held,      \* cl host history: resource -> "null" | "live" | "dead" (released)
    rfault,    \* cl host history: faults so far: "double release", "use after release", "leak"
    hostres,   \* cl host: the host result matrix after clEnqueueReadBuffer
    argv,      \* command line: the options given, each <<letter, atol(optarg)>>
    optind,    \* command line: index of the next option getopt returns
    parse_ret, \* command line: ret of parse_cmdline
    cfg_m, cfg_n, cfg_threads, \* command line: m, n, threads of parse_cmdline
    rejected,  \* command line history: options answered with a "Bad ..." message
    helped,    \* command line history: TRUE once -h was met
    main_pc    \* command line: position of main around parse_cmdline

\* the command line of the program and its parsing
cmdVars == <<argv, optind, parse_ret, cfg_m, cfg_n, cfg_threads, rejected, helped,
             main_pc>>

\* the call: program, its command line, sizes, operands
callVars == <<prog, m, n, w, threads, mat1, mat2, cmdVars>>

\* the workers of the threaded programs (pthread, omp)
workVars == <<created, joined, wstate, wpos, wrow>>

\* the history of runs of a program
runVars == <<run, first>>

\* the MPI program
mpiVars == <<world_size, rpc, rret, rmat1, rmat2, rmat3, res, chanScatter,
             chanBcast, chanGather, allocd, clog>>

\* the OpenCL kernels
clVars == <<kernel, gfirst, gcount, ipc, iter, tmp, local_row, local_col>>

hostVars == <<hi, hdi, hki, nb_platforms, nb_devices, nb_kernels, success,
              finished, pseen, dseen, kseen, held, rfault, hostres>>

vars == <<callVars, result, pc, ret, workVars, writers, runVars, junk, oob,
          mpiVars, clVars, hostVars>>

---------------------------------------------------------------------------
(* Bounds of the model *)

MaxM == 3          \* largest row size explored
MaxT == 4          \* largest worker count explored (exceeds MaxM)
WordMod == 16      \* modulus of the element type (stands for 2^64 / 2^32)
MaxSeed == 1       \* operand pairs: mat1 of seed s, mat2 of seed 2s, s in 0..MaxSeed

Min(a, b) == IF a < b THEN a ELSE b

\* What an uninitialised (malloc'ed, never written) word may hold.
Garbage == {0, WordMod - 1}

\* mat_init of the uint64_t programs writes mat[i] = i; seed 0 is that matrix.
mat_init(len, seed) == [i \in 0 .. len - 1 |-> (i + seed) % WordMod]

Fill(len, g) == [i \in 0 .. len - 1 |-> g]

\* a[idx]; an index outside the buffer reads whatever lies there.
Rd(a, idx) == IF idx \in DOMAIN a THEN a[idx] ELSE junk

---------------------------------------------------------------------------
(* The inner reduction loop shared by every variant:                       *)
(*   tmp = 0; for k < w: tmp += mat1[i * w + k] * mat2[k * n + j]          *)

RECURSIVE DotFromMutSaturate(_, _, _, _, _, _, _, _)
DotFromMutSaturate(a, b, i, j, nn, ww, k, acc) ==
    IF k >= ww THEN acc
    ELSE DotFromMutSaturate(a, b, i, j, nn, ww, k + 1,
                            Min(acc + Rd(a, i * ww + k) * Rd(b, k * nn + j), WordMod - 1))

RECURSIVE DotFrom(_, _, _, _, _, _, _, _)
DotFrom(a, b, i, j, nn, ww, k, acc) ==
    IF k >= ww THEN acc
    ELSE DotFrom(a, b, i, j, nn, ww, k + 1,
                 (acc + Rd(a, i * ww + k) * Rd(b, k * nn + j)) % WordMod)

Dot(a, b, i, j, nn, ww) == DotFrom(a, b, i, j, nn, ww, 0, 0)

(* mat_mult of the plain C program: rows, then columns, in order; each     *)
(* iteration stores result[i * m + j].                                     *)
RECURSIVE mat_mult_loop(_, _, _, _, _, _, _)
mat_mult_loop(a, b, r, mm, nn, ww, p) ==
    IF p >= mm * nn THEN r
    ELSE LET i == p \div nn
             j == p % nn
         IN  mat_mult_loop(a, b, [r EXCEPT ![i * mm + j] = Dot(a, b, i, j, nn, ww)],
                           mm, nn, ww, p + 1)

mat_mult(a, b, r, mm, nn, ww) == mat_mult_loop(a, b, r, mm, nn, ww, 0)

---------------------------------------------------------------------------
Workers == 0 .. threads - 1
Cells == 0 .. m * n - 1

(* A store result[idx] = v by worker who: inside the buffer it changes the *)
(* cell; outside it is an out-of-bounds store, recorded in oob.            *)

Store(idx, v, who) ==
    IF idx \in DOMAIN result
    THEN /\ result' = [result EXCEPT ![idx] = v]
         /\ writers' = [writers EXCEPT ![idx] = @ \cup {who}]
         /\ oob' = oob
    ELSE /\ oob' = TRUE
         /\ UNCHANGED <<result, writers>>

\* if(n != w): the matrixes cannot be multiplied
CannotMultiplyMutGreater(nn, ww) == nn > ww

CannotMultiply(nn, ww) == nn # ww

\* The MPI variables in the programs that do not use MPI.
IdleMpi ==
    /\ world_size = 0
    /\ rpc = << >> /\ rret = << >>
    /\ rmat1 = << >> /\ rmat2 = << >> /\ rmat3 = << >> /\ res = << >>
    /\ chanScatter = << >> /\ chanBcast = << >> /\ chanGather = << >>
    /\ allocd = {}
    /\ clog = << >>

\* The OpenCL variables in the programs that do not use OpenCL.
IdleCl ==
    /\ kernel = "none" /\ gfirst = 0 /\ gcount = 0
    /\ ipc = << >> /\ iter = << >> /\ tmp = << >>
    /\ local_row = << >> /\ local_col = << >>

\* The command line in the behaviours that start at the multiply call.
IdleCmd ==
    /\ argv = << >> /\ optind = 0 /\ parse_ret = 1
    /\ cfg_m = 0 /\ cfg_n = 0 /\ cfg_threads = 0
    /\ rejected = {} /\ helped = FALSE
    /\ main_pc = "none"

\* The OpenCL host variables in the programs that do not run mat_mult_cl.
IdleHost ==
    /\ IdleCmd
    /\ hi = 0 /\ hdi = 0 /\ hki = 0
    /\ nb_platforms = 0 /\ nb_devices = 0 /\ nb_kernels = 0
    /\ success = 0 /\ finished = 0
    /\ pseen = 0 /\ dseen = 0 /\ kseen = 0
    /\ held = << >> /\ rfault = {}
    /\ hostres = << >>

\* The state every program starts its call in, given sizes and operands.
InitCall(p, t) ==
    /\ prog = p
    /\ threads = t
    /\ w \in {n, n + 1}
    /\ \E s \in 0 .. MaxSeed :
          /\ mat1 = mat_init(m * n, s)
          /\ mat2 = mat_init(m * n, 2 * s)
    /\ junk \in Garbage
    /\ result = Fill(m * n, junk)
    /\ pc = "entry"
    /\ ret = "none"
    /\ created = 0
    /\ joined = 0
    /\ wstate = [i \in 0 .. t - 1 |-> "none"]
    /\ wpos = [i \in 0 .. t - 1 |-> 0]
    /\ wrow = [i \in 0 .. t - 1 |-> 0]
    /\ writers = [c \in 0 .. m * n - 1 |-> {}]
    /\ run = 1
    /\ first = << >>
    /\ oob = FALSE
    /\ IdleMpi
    /\ IdleCl
    /\ IdleHost

---------------------------------------------------------------------------
(* pthread program: mat_mult_work *)

\* size_t step = m / d->threads; if(step == 0) step = 1;
WorkStepMutNoClamp(mm, t) == mm \div t

WorkStep(mm, t) == IF mm \div t = 0 THEN 1 ELSE mm \div t

\* if(step == 0) { ...; if(d->idx >= m) return NULL; }
WorkExitsEarly(idx, mm, t) == mm \div t = 0 /\ idx >= mm

\* for(i = d->idx * step ; i < (d->idx + 1) * step && i < m ; i++)
WorkRowStart(idx, mm, t) == idx * WorkStep(mm, t)

WorkRowEndMutOverlap(idx, mm, t) == Min((idx + 1) * WorkStep(mm, t) + 1, mm)

WorkRowEnd(idx, mm, t) == Min((idx + 1) * WorkStep(mm, t), mm)

\* The rows worker idx iterates over.
WorkRows(idx, mm, t) ==
    IF WorkExitsEarly(idx, mm, t) THEN {}
    ELSE {i \in 0 .. mm - 1 : WorkRowStart(idx, mm, t) <= i /\ i < WorkRowEnd(idx, mm, t)}

\* Number of cells worker idx stores in all.
WorkCells(idx, mm, nn, t) == Cardinality(WorkRows(idx, mm, t)) * nn

---------------------------------------------------------------------------
(* pthread program: initial states.  main passes n = w = m; the entry      *)
(* point itself takes any w, so w also ranges over a mismatching value.    *)

InitPthread ==
    /\ m \in 1 .. MaxM
    /\ n = m
    /\ \E t \in 1 .. MaxT : InitCall("pthread", t)

\* if(n != w) return -1;
PthreadCheck ==
    /\ prog = "pthread" /\ pc = "entry"
    /\ IF CannotMultiply(n, w)
       THEN pc' = "returned" /\ ret' = "-1"
       ELSE pc' = "create" /\ ret' = ret
    /\ UNCHANGED <<hostVars, clVars, mpiVars, callVars, result, workVars, writers, runVars, junk, oob>>

\* datas[i] = ...; ret = pthread_create(&ids[i], NULL, mat_mult_work, &datas[i]);
\* succeeding: the worker starts running.
PthreadCreate ==
    /\ prog = "pthread" /\ pc = "create" /\ created < threads
    /\ wstate' = [wstate EXCEPT ![created] = "run"]
    /\ created' = created + 1
    /\ UNCHANGED <<hostVars, clVars, mpiVars, callVars, result, pc, ret, joined, wpos, wrow, writers, runVars, junk, oob>>

\* pthread_create failing: errno = ret; perror(...); return -1;
PthreadCreateFail ==
    /\ prog = "pthread" /\ pc = "create" /\ created < threads
    /\ pc' = "returned" /\ ret' = "-1"
    /\ UNCHANGED <<hostVars, clVars, mpiVars, callVars, result, workVars, writers, runVars, junk, oob>>

\* the creation loop is over: go on to the join loop
PthreadCreated ==
    /\ prog = "pthread" /\ pc = "create" /\ created = threads
    /\ pc' = "join"
    /\ UNCHANGED <<hostVars, clVars, mpiVars, callVars, result, ret, workVars, writers, runVars, junk, oob>>

\* pthread_join(id, NULL) returns once the thread has terminated
JoinReadyMutNoWait(st) == st \in {"run", "done"}

JoinReady(st) == st = "done"

\* mat_mult_pthread has returned from inside the creation loop: ids[] and
\* datas[] are dead while the workers already created may still run.  A
\* worker reads d->idx from its descriptor in every test of its row loop
\* (and all of it when it starts), so from here on that test can come out
\* either way and any of its loads and stores can go anywhere.
DescriptorDead == prog = "pthread" /\ pc = "returned" /\ ret = "-1"

\* One iteration of the worker's (i, j) loops: result[i * m + j] = tmp.
WorkWrite(idx) ==
    /\ prog = "pthread" /\ wstate[idx] = "run"
    /\ wpos[idx] < WorkCells(idx, m, n, threads)
    /\ LET i == WorkRowStart(idx, m, threads) + (wpos[idx] \div n)
           j == wpos[idx] % n
       IN  Store(i * m + j, Dot(mat1, mat2, i, j, n, w), idx)
    /\ wpos' = [wpos EXCEPT ![idx] = @ + 1]
    /\ UNCHANGED <<hostVars, clVars, mpiVars, callVars, pc, ret, created, joined, wstate, wrow, runVars, junk>>

\* The worker's loop is over (or it exits early): return NULL.
WorkReturn(idx) ==
    /\ prog = "pthread" /\ wstate[idx] = "run"
    /\ \/ wpos[idx] >= WorkCells(idx, m, n, threads)
       \/ DescriptorDead /\ wpos[idx] % n = 0
    /\ wstate' = [wstate EXCEPT ![idx] = "done"]
    /\ UNCHANGED <<hostVars, clVars, mpiVars, callVars, result, pc, ret, created, joined, wpos, wrow, writers, runVars, junk, oob>>

\* A worker whose descriptor is dead finds i < (d->idx + 1) * step true at the
\* end of its rows: it goes on into row i < m, which is not its own.
WorkOverrun(idx) ==
    /\ DescriptorDead /\ wstate[idx] = "run"
    /\ wpos[idx] >= WorkCells(idx, m, n, threads)
    /\ LET i == WorkRowStart(idx, m, threads) + (wpos[idx] \div n)
       IN  /\ i < m
           /\ Store(i * m, Dot(mat1, mat2, i, 0, n, w), idx)
    /\ wstate' = [wstate EXCEPT ![idx] = "done"]
    /\ UNCHANGED <<hostVars, clVars, mpiVars, callVars, pc, ret, created, joined, wpos, wrow, runVars, junk>>

\* A worker whose descriptor is dead loads or stores through what it read
\* there: an access outside the matrixes, after which the thread is gone.
WorkWild(idx) ==
    /\ DescriptorDead /\ wstate[idx] = "run"
    /\ oob' = TRUE
    /\ wstate' = [wstate EXCEPT ![idx] = "done"]
    /\ UNCHANGED <<hostVars, clVars, mpiVars, callVars, result, pc, ret, created, joined, wpos, wrow, writers, runVars, junk>>

\* pthread_join(ids[i], NULL): blocks until worker i has terminated.
PthreadJoin ==
    /\ prog = "pthread" /\ pc = "join" /\ joined < threads
    /\ JoinReady(wstate[joined])
    /\ joined' = joined + 1
    /\ UNCHANGED <<hostVars, clVars, mpiVars, callVars, result, pc, ret, created, wstate, wpos, wrow, writers, runVars, junk, oob>>

\* return 0;
PthreadReturn ==
    /\ prog = "pthread" /\ pc = "join" /\ joined = threads
    /\ pc' = "returned" /\ ret' = "0"
    /\ UNCHANGED <<hostVars, clVars, mpiVars, callVars, result, workVars, writers, runVars, junk, oob>>

\* The program is run a second time on the same operands: main allocates a
\* fresh, uninitialised mat3 and calls mat_mult_pthread again.
PthreadSecondRun ==
    /\ prog = "pthread" /\ pc = "returned" /\ ret = "0" /\ run = 1
    /\ run' = 2
    /\ first' = result
    /\ junk' \in Garbage
    /\ result' = Fill(m * n, junk')
    /\ pc' = "entry" /\ ret' = "none"
    /\ created' = 0 /\ joined' = 0
    /\ wstate' = [i \in Workers |-> "none"]
    /\ wpos' = [i \in Workers |-> 0]
    /\ writers' = [c \in Cells |-> {}]
    /\ UNCHANGED <<hostVars, clVars, mpiVars, callVars, oob, wrow>>

NextPthread ==
    \/ PthreadCheck
    \/ PthreadCreate
    \/ PthreadCreateFail
    \/ PthreadCreated
    \/ \E idx \in Workers : WorkWrite(idx)
    \/ \E idx \in Workers : WorkReturn(idx)
    \/ \E idx \in Workers : WorkOverrun(idx)
    \/ \E idx \in Workers : WorkWild(idx)
    \/ PthreadJoin
    \/ PthreadReturn
    \/ PthreadSecondRun

SpecPthread == InitPthread /\ [][NextPthread]_vars

---------------------------------------------------------------------------
(* Plain C program: mat_mult, run by the calling thread (worker 0).  The   *)
(* command line accepts any m >= 2 and n >= 2 and main passes w = n.       *)

InitC ==
    /\ m \in 2 .. MaxM
    /\ n \in 2 .. MaxM
    /\ InitCall("c", 1)

\* if(n != w) return -1;
CCheck ==
    /\ prog = "c" /\ pc = "entry"
    /\ IF CannotMultiply(n, w)
       THEN pc' = "returned" /\ ret' = "-1"
       ELSE pc' = "loop" /\ ret' = ret
    /\ UNCHANGED <<hostVars, clVars, mpiVars, callVars, result, workVars, writers, runVars, junk, oob>>

\* one iteration of the (i, j) loops: result[i * m + j] = tmp
CWrite ==
    /\ prog = "c" /\ pc = "loop" /\ wpos[0] < m * n
    /\ LET i == wpos[0] \div n
           j == wpos[0] % n
       IN  Store(i * m + j, Dot(mat1, mat2, i, j, n, w), 0)
    /\ wpos' = [wpos EXCEPT ![0] = @ + 1]
    /\ UNCHANGED <<hostVars, clVars, mpiVars, callVars, pc, ret, created, joined, wstate, wrow, runVars, junk>>

\* return 0;
CReturn ==
    /\ prog = "c" /\ pc = "loop" /\ wpos[0] >= m * n
    /\ pc' = "returned" /\ ret' = "0"
    /\ UNCHANGED <<hostVars, clVars, mpiVars, callVars, result, workVars, writers, runVars, junk, oob>>

NextC == CCheck \/ CWrite \/ CReturn

SpecC == InitC /\ [][NextC]_vars

---------------------------------------------------------------------------
(* OpenACC program: mat_mult_oacc.  The i and j loops are independent and  *)
(* each (i, j) stores its own cell; the k loop is a reduction(+:tmp), whose *)
(* terms the implementation adds in an order of its choice.                *)

\* tmp += mat1[i * w + k] * mat2[k * n + j] over the k < kk, highest k first
RECURSIVE DotDownFrom(_, _, _, _, _, _, _, _)
DotDownFrom(a, b, i, j, nn, ww, kk, acc) ==
    IF kk <= 0 THEN acc
    ELSE DotDownFrom(a, b, i, j, nn, ww, kk - 1,
                     (acc + Rd(a, i * ww + (kk - 1)) * Rd(b, (kk - 1) * nn + j)) % WordMod)

DotDown(a, b, i, j, nn, ww, kk) == DotDownFrom(a, b, i, j, nn, ww, kk, 0)

InitOacc ==
    /\ m \in 2 .. MaxM
    /\ n = m
    /\ InitCall("oacc", 1)

\* if(n != w) return -1;
OaccCheck ==
    /\ prog = "oacc" /\ pc = "entry"
    /\ IF CannotMultiply(n, w)
       THEN pc' = "returned" /\ ret' = "-1"
       ELSE pc' = "loop" /\ ret' = ret
    /\ UNCHANGED <<hostVars, clVars, mpiVars, callVars, result, workVars, writers, runVars, junk, oob>>

\* one (i, j) of the parallel region: the reduction over k, in ascending or
\* descending order of k, then result[i * m + j] = tmp
OaccWrite ==
    /\ prog = "oacc" /\ pc = "loop" /\ wpos[0] < m * n
    /\ LET i == wpos[0] \div n
           j == wpos[0] % n
       IN  \E v \in {Dot(mat1, mat2, i, j, n, w), DotDown(mat1, mat2, i, j, n, w, w)} :
              Store(i * m + j, v, 0)
    /\ wpos' = [wpos EXCEPT ![0] = @ + 1]
    /\ UNCHANGED <<hostVars, clVars, mpiVars, callVars, pc, ret, created, joined, wstate, wrow, runVars, junk>>

\* return 0;
OaccReturn ==
    /\ prog = "oacc" /\ pc = "loop" /\ wpos[0] >= m * n
    /\ pc' = "returned" /\ ret' = "0"
    /\ UNCHANGED <<hostVars, clVars, mpiVars, callVars, result, workVars, writers, runVars, junk, oob>>

NextOacc == OaccCheck \/ OaccWrite \/ OaccReturn

SpecOacc == InitOacc /\ [][NextOacc]_vars

---------------------------------------------------------------------------
(* OpenMP program: mat_mult_omp.  The parallel region has a team of        *)
(* `threads` threads; each runs the whole outer loop, and the inner        *)
(* `omp for schedule(static)` gives thread t one contiguous block of the   *)
(* columns and ends with a barrier of the team.                            *)

\* first column and number of columns of thread t under the static schedule
OmpChunkSize(t, nn, tt) == (nn \div tt) + (IF t < nn % tt THEN 1 ELSE 0)

OmpChunkStart(t, nn, tt) == t * (nn \div tt) + Min(t, nn % tt)

InitOmp ==
    /\ m \in 2 .. MaxM
    /\ n \in 2 .. MaxM
    /\ \E t \in 1 .. MaxT : InitCall("omp", t)

\* if(n != w) return -1; otherwise the team enters the parallel region
OmpCheck ==
    /\ prog = "omp" /\ pc = "entry"
    /\ IF CannotMultiply(n, w)
       THEN /\ pc' = "returned" /\ ret' = "-1"
            /\ UNCHANGED <<wstate, created>>
       ELSE /\ pc' = "parallel" /\ ret' = ret
            /\ wstate' = [t \in Workers |-> "run"]
            /\ created' = threads
    /\ UNCHANGED <<hostVars, clVars, mpiVars, callVars, result, joined, wpos, wrow, writers, runVars, junk, oob>>

\* thread t runs one iteration of its share of the j loop in row wrow[t]
OmpWrite(t) ==
    /\ prog = "omp" /\ wstate[t] = "run"
    /\ wrow[t] < m
    /\ wpos[t] < OmpChunkSize(t, n, threads)
    /\ LET i == wrow[t]
           j == OmpChunkStart(t, n, threads) + wpos[t]
       IN  Store(i * m + j, Dot(mat1, mat2, i, j, n, w), t)
    /\ wpos' = [wpos EXCEPT ![t] = @ + 1]
    /\ UNCHANGED <<hostVars, clVars, mpiVars, callVars, pc, ret, created, joined, wstate, wrow, runVars, junk>>

\* every thread of the team has reached the barrier that ends the omp for of
\* row i (or has already left it)
TeamArrivedMutNoWait(i) == TRUE

TeamArrived(i) ==
    \A u \in Workers :
        \/ wrow[u] > i
        \/ wrow[u] = i /\ wpos[u] = OmpChunkSize(u, n, threads)

\* the barrier that ends the omp for of row wrow[t]: t leaves it once every
\* thread of the team has finished its share of that row
OmpBarrier(t) ==
    /\ prog = "omp" /\ wstate[t] = "run"
    /\ wrow[t] < m
    /\ wpos[t] = OmpChunkSize(t, n, threads)
    /\ TeamArrived(wrow[t])
    /\ wrow' = [wrow EXCEPT ![t] = @ + 1]
    /\ wpos' = [wpos EXCEPT ![t] = 0]
    /\ UNCHANGED <<hostVars, clVars, mpiVars, callVars, result, pc, ret, created, joined, wstate, writers,
                   runVars, junk, oob>>

\* thread t has run the outer loop to its end
OmpThreadEnd(t) ==
    /\ prog = "omp" /\ wstate[t] = "run"
    /\ wrow[t] >= m
    /\ wstate' = [wstate EXCEPT ![t] = "done"]
    /\ UNCHANGED <<hostVars, clVars, mpiVars, callVars, result, pc, ret, created, joined, wpos, wrow, writers,
                   runVars, junk, oob>>

\* end of the parallel region (implicit join of the team), then return 0;
OmpReturn ==
    /\ prog = "omp" /\ pc = "parallel"
    /\ \A t \in Workers : wstate[t] = "done"
    /\ pc' = "returned" /\ ret' = "0"
    /\ joined' = threads
    /\ UNCHANGED <<hostVars, clVars, mpiVars, callVars, result, created, wstate, wpos, wrow, writers,
                   runVars, junk, oob>>

NextOmp ==
    \/ OmpCheck
    \/ \E t \in Workers : OmpWrite(t)
    \/ \E t \in Workers : OmpBarrier(t)
    \/ \E t \in Workers : OmpThreadEnd(t)
    \/ OmpReturn

SpecOmp == InitOmp /\ [][NextOmp]_vars

---------------------------------------------------------------------------
(* MPI program: main and mat_mult_mpi, one process per rank.  A collective *)
(* is modelled by the messages it moves: the root deposits what it sends,  *)
(* a receiver blocks until its message is there.                           *)

MaxW == 2          \* largest number of ranks explored

Ranks == 0 .. world_size - 1

None == << >>
Has(buf) == DOMAIN buf # {}

\* buf[off .. off + len - 1]
Slice(buf, off, len) == [i \in 0 .. len - 1 |-> buf[off + i]]

\* buf with chunk copied to buf[off ...]
Paste(buf, off, chunk) ==
    [i \in DOMAIN buf |->
        IF i - off \in DOMAIN chunk THEN chunk[i - off] ELSE buf[i]]

\* int nb_elements = m * n; int nb_subelements = nb_elements / world_size;
nb_subelements(mm, nn, ws) == (mm * nn) \div ws

\* main: if(m % world_size) { ...; MPI_Abort(MPI_COMM_WORLD, EXIT_FAILURE); }
MustAbortMutRootOnly(r, mm, ws) == r = 0 /\ mm % ws # 0

MustAbort(r, mm, ws) == mm % ws # 0

\* MPI_Scatter / MPI_Gather: the slice of rank q starts at q * count
RankOffsetMutReversed(q, count, ws) == (ws - 1 - q) * count

RankOffset(q, count, ws) == q * count

\* the local multiply of mat_mult_mpi: rows 0 .. m / world_size - 1 of the
\* rank's mat1, each iteration stores res[i * m + j]
RECURSIVE MpiLocalLoop(_, _, _, _, _, _, _, _)
MpiLocalLoop(a, b, r, rows, mm, nn, ww, p) ==
    IF p >= rows * nn THEN r
    ELSE LET i == p \div nn
             j == p % nn
         IN  MpiLocalLoop(a, b, [r EXCEPT ![i * mm + j] = Dot(a, b, i, j, nn, ww)],
                          rows, mm, nn, ww, p + 1)

\* the variables of the single-process programs, unused by the MPI program
IdleCall ==
    /\ result = None /\ pc = "none" /\ ret = "none"
    /\ created = 0 /\ joined = 0
    /\ wstate = None /\ wpos = None /\ wrow = None
    /\ writers = None
    /\ run = 1 /\ first = None
    /\ oob = FALSE

InitMpi ==
    /\ prog = "mpi"
    /\ m \in 2 .. MaxM
    /\ n = m
    /\ w \in {n, n + 1}
    /\ threads = 1
    /\ \E s \in 0 .. MaxSeed :
          /\ mat1 = mat_init(m * n, s)
          /\ mat2 = mat_init(m * n, 2 * s)
    /\ junk \in Garbage
    /\ IdleCall
    /\ IdleCl
    /\ IdleHost
    /\ world_size \in 1 .. MaxW
    /\ rpc = [r \in Ranks |-> "start"]
    /\ rret = [r \in Ranks |-> "none"]
    /\ rmat1 = [r \in Ranks |-> None]
    /\ rmat2 = [r \in Ranks |-> None]
    /\ rmat3 = [r \in Ranks |-> None]
    /\ res = [r \in Ranks |-> None]
    /\ chanScatter = [r \in Ranks |-> None]
    /\ chanBcast = [r \in Ranks |-> None]
    /\ chanGather = [r \in Ranks |-> None]
    /\ allocd = {}
    /\ clog = [r \in Ranks |-> << >>]

mpiFrame == <<callVars, result, pc, ret, workVars, writers, runVars, junk, oob,
              world_size, clVars, hostVars>>

\* main: the divisibility check after MPI_Comm_size / MPI_Comm_rank
MpiCheck(r) ==
    /\ prog = "mpi" /\ rpc[r] = "start"
    /\ rpc' = [rpc EXCEPT ![r] = IF MustAbort(r, m, world_size)
                                 THEN "aborted" ELSE "alloc"]
    /\ UNCHANGED <<mpiFrame, rret, rmat1, rmat2, rmat3, res, chanScatter,
                   chanBcast, chanGather, allocd, clog>>

\* MPI_Abort by one rank terminates the other processes of the job
MpiKilled(r) ==
    /\ prog = "mpi"
    /\ \E q \in Ranks : rpc[q] = "aborted"
    /\ rpc[r] \notin {"aborted", "killed", "exited", "final"}
    /\ rpc' = [rpc EXCEPT ![r] = "killed"]
    /\ UNCHANGED <<mpiFrame, rret, rmat1, rmat2, rmat3, res, chanScatter,
                   chanBcast, chanGather, allocd, clog>>

\* main: mat1, mat2, mat3 = malloc(...); rank 0 then runs mat_init
MpiAlloc(r) ==
    /\ prog = "mpi" /\ rpc[r] = "alloc"
    /\ rmat1' = [rmat1 EXCEPT ![r] = IF r = 0 THEN mat1 ELSE Fill(m * n, junk)]
    /\ rmat2' = [rmat2 EXCEPT ![r] = IF r = 0 THEN mat2 ELSE Fill(m * n, junk)]
    /\ rmat3' = [rmat3 EXCEPT ![r] = Fill(m * n, junk)]
    /\ allocd' = allocd \cup {r}
    /\ rpc' = [rpc EXCEPT ![r] = "call"]
    /\ UNCHANGED <<mpiFrame, rret, res, chanScatter, chanBcast, chanGather, clog>>

\* main: malloc failed: free; MPI_Finalize(); exit(EXIT_FAILURE);
MpiAllocFail(r) ==
    /\ prog = "mpi" /\ rpc[r] = "alloc"
    /\ rpc' = [rpc EXCEPT ![r] = "exited"]
    /\ UNCHANGED <<mpiFrame, rret, rmat1, rmat2, rmat3, res, chanScatter,
                   chanBcast, chanGather, allocd, clog>>

\* mat_mult_mpi: res = malloc(...) succeeds; if(n != w || !res) return -1;
MpiEnter(r) ==
    /\ prog = "mpi" /\ rpc[r] = "call"
    /\ res' = [res EXCEPT ![r] = Fill(nb_subelements(m, n, world_size), junk)]
    /\ IF CannotMultiply(n, w)
       THEN /\ rret' = [rret EXCEPT ![r] = "-1"]
            /\ rpc' = [rpc EXCEPT ![r] = "returned"]
       ELSE /\ rret' = rret
            /\ rpc' = [rpc EXCEPT ![r] = "scatter"]
    /\ UNCHANGED <<mpiFrame, rmat1, rmat2, rmat3, chanScatter, chanBcast,
                   chanGather, allocd, clog>>

\* mat_mult_mpi: res = malloc(...) fails; if(n != w || !res) return -1;
MpiEnterNoMem(r) ==
    /\ prog = "mpi" /\ rpc[r] = "call"
    /\ rret' = [rret EXCEPT ![r] = "-1"]
    /\ rpc' = [rpc EXCEPT ![r] = "returned"]
    /\ UNCHANGED <<mpiFrame, rmat1, rmat2, rmat3, res, chanScatter, chanBcast,
                   chanGather, allocd, clog>>

\* the call that follows MPI_Scatter in mat_mult_mpi: MPI_Bcast
AfterScatterMutSkipBcast == "compute"

AfterScatter == "bcast"

\* MPI_Scatter(mat1, nb_subelements, ..., mat1, nb_subelements, ..., 0, ...)
MpiScatter(r) ==
    /\ prog = "mpi" /\ rpc[r] = "scatter"
    /\ LET sub == nb_subelements(m, n, world_size)
       IN  IF r = 0
           THEN /\ chanScatter' =
                     [q \in Ranks |->
                         Slice(rmat1[0], RankOffset(q, sub, world_size), sub)]
                /\ rmat1' = [rmat1 EXCEPT ![0] =
                     Paste(@, 0, Slice(rmat1[0], RankOffset(0, sub, world_size), sub))]
           ELSE /\ Has(chanScatter[r])
                /\ rmat1' = [rmat1 EXCEPT ![r] = Paste(@, 0, chanScatter[r])]
                /\ chanScatter' = chanScatter
    /\ clog' = [clog EXCEPT ![r] =
                    Append(@, <<"Scatter", 0, nb_subelements(m, n, world_size)>>)]
    /\ rpc' = [rpc EXCEPT ![r] = AfterScatter]
    /\ UNCHANGED <<mpiFrame, rret, rmat2, rmat3, res, chanBcast, chanGather, allocd>>

\* The root passes mat1 both as send and as receive buffer.  MPI forbids
\* aliased buffers (MPI_IN_PLACE is the permitted form); a library that
\* checks its arguments raises MPI_ERR_BUFFER, fatal under the default
\* error handler.
MpiScatterAliased ==
    /\ prog = "mpi" /\ rpc[0] = "scatter"
    /\ clog' = [clog EXCEPT ![0] =
                    Append(@, <<"Scatter", 0, nb_subelements(m, n, world_size)>>)]
    /\ rpc' = [rpc EXCEPT ![0] = "aborted"]
    /\ UNCHANGED <<mpiFrame, rret, rmat1, rmat2, rmat3, res, chanScatter,
                   chanBcast, chanGather, allocd>>

\* MPI_Bcast(mat2, nb_elements, MPI_UINT64_T, 0, MPI_COMM_WORLD)
MpiBcast(r) ==
    /\ prog = "mpi" /\ rpc[r] = "bcast"
    /\ IF r = 0
       THEN /\ chanBcast' = [q \in Ranks |-> Slice(rmat2[0], 0, m * n)]
            /\ rmat2' = rmat2
       ELSE /\ Has(chanBcast[r])
            /\ rmat2' = [rmat2 EXCEPT ![r] = Paste(@, 0, chanBcast[r])]
            /\ chanBcast' = chanBcast
    /\ clog' = [clog EXCEPT ![r] = Append(@, <<"Bcast", 0, m * n>>)]
    /\ rpc' = [rpc EXCEPT ![r] = "compute"]
    /\ UNCHANGED <<mpiFrame, rret, rmat1, rmat3, res, chanScatter, chanGather, allocd>>

\* the local multiply into res
MpiCompute(r) ==
    /\ prog = "mpi" /\ rpc[r] = "compute"
    /\ res' = [res EXCEPT ![r] =
                  MpiLocalLoop(rmat1[r], rmat2[r], @, m \div world_size, m, n, w, 0)]
    /\ clog' = [clog EXCEPT ![r] = Append(@, <<"Multiply", -1, (m \div world_size) * n>>)]
    /\ rpc' = [rpc EXCEPT ![r] = "gather"]
    /\ UNCHANGED <<mpiFrame, rret, rmat1, rmat2, rmat3, chanScatter, chanBcast,
                   chanGather, allocd>>

\* MPI_Gather(res, nb_subelements, ..., result, nb_subelements, ..., 0, ...);
\* free(res); the rank then enters MPI_Barrier
MpiGather(r) ==
    /\ prog = "mpi" /\ rpc[r] = "gather"
    /\ LET sub == nb_subelements(m, n, world_size)
           mine == Slice(res[r], 0, sub)
           RECURSIVE Collect(_, _)
           Collect(buf, q) ==
               IF q >= world_size THEN buf
               ELSE Collect(Paste(buf, RankOffset(q, sub, world_size),
                                  IF q = 0 THEN mine ELSE chanGather[q]), q + 1)
       IN  IF r = 0
           THEN /\ \A q \in Ranks \ {0} : Has(chanGather[q])
                /\ rmat3' = [rmat3 EXCEPT ![0] = Collect(@, 0)]
                /\ chanGather' = [chanGather EXCEPT ![0] = mine]
           ELSE /\ chanGather' = [chanGather EXCEPT ![r] = mine]
                /\ rmat3' = rmat3
    /\ res' = [res EXCEPT ![r] = None]
    /\ clog' = [clog EXCEPT ![r] =
                    Append(@, <<"Gather", 0, nb_subelements(m, n, world_size)>>)]
    /\ rpc' = [rpc EXCEPT ![r] = "barrier"]
    /\ UNCHANGED <<mpiFrame, rret, rmat1, rmat2, chanScatter, chanBcast, allocd>>

\* MPI_Barrier(MPI_COMM_WORLD) completes once every rank has entered it;
\* return 0;
MpiBarrier(r) ==
    /\ prog = "mpi" /\ rpc[r] = "barrier"
    /\ \A q \in Ranks :
          rpc[q] = "barrier" \/ (rpc[q] \in {"returned", "final"} /\ rret[q] = "0")
    /\ clog' = [clog EXCEPT ![r] = Append(@, <<"Barrier", -1, 0>>)]
    /\ rret' = [rret EXCEPT ![r] = "0"]
    /\ rpc' = [rpc EXCEPT ![r] = "returned"]
    /\ UNCHANGED <<mpiFrame, rmat1, rmat2, rmat3, res, chanScatter, chanBcast,
                   chanGather, allocd>>

\* main: free(mat1); free(mat2); free(mat3); MPI_Finalize(); return ret;
MpiFinalize(r) ==
    /\ prog = "mpi" /\ rpc[r] = "returned"
    /\ rpc' = [rpc EXCEPT ![r] = "final"]
    /\ UNCHANGED <<mpiFrame, rret, rmat1, rmat2, rmat3, res, chanScatter,
                   chanBcast, chanGather, allocd, clog>>

NextMpi ==
    \/ \E r \in Ranks : MpiCheck(r)
    \/ \E r \in Ranks : MpiKilled(r)
    \/ \E r \in Ranks : MpiAlloc(r)
    \/ \E r \in Ranks : MpiAllocFail(r)
    \/ \E r \in Ranks : MpiEnter(r)
    \/ \E r \in Ranks : MpiEnterNoMem(r)
    \/ \E r \in Ranks : MpiScatter(r)
    \/ MpiScatterAliased
    \/ \E r \in Ranks : MpiBcast(r)
    \/ \E r \in Ranks : MpiCompute(r)
    \/ \E r \in Ranks : MpiGather(r)
    \/ \E r \in Ranks : MpiBarrier(r)
    \/ \E r \in Ranks : MpiFinalize(r)

SpecMpi == InitMpi /\ [][NextMpi]_vars

\* the steps of the process of rank r
MpiRankStep(r) ==
    /\ r \in Ranks
    /\ \/ MpiCheck(r) \/ MpiKilled(r) \/ MpiAlloc(r) \/ MpiAllocFail(r)
       \/ MpiEnter(r) \/ MpiEnterNoMem(r) \/ MpiScatter(r)
       \/ (r = 0 /\ MpiScatterAliased)
       \/ MpiBcast(r) \/ MpiCompute(r) \/ MpiGather(r) \/ MpiBarrier(r)
       \/ MpiFinalize(r)

\* the MPI program with every process scheduled fairly: a process that can
\* take a step (it is not blocked in a collective) eventually takes one
SpecMpiFair == SpecMpi /\ \A r \in 0 .. MaxW - 1 : WF_vars(MpiRankStep(r))

---------------------------------------------------------------------------
(* The four multiply entry points that check the inner dimensions:         *)
(* mat_mult, mat_mult_omp, mat_mult_pthread and mat_mult_mpi, each called  *)
(* in its own program.                                                     *)

InitEntry == InitC \/ InitOmp \/ InitPthread \/ InitMpi

NextEntry == NextC \/ NextOmp \/ NextPthread \/ NextMpi

SpecEntry == InitEntry /\ [][NextEntry]_vars

---------------------------------------------------------------------------
(* The programs with matrixes of int whose command line takes -m and -n:   *)
(* plain C, OpenMP and the int pthread program.  main allocates the three  *)
(* matrixes with m * n elements and passes w = n, whatever m and n.        *)

\* main of the int pthread program: m = config.m; n = config.n; w = config.n;
InitPthreadInt ==
    /\ m \in 2 .. MaxM
    /\ n \in 2 .. MaxM
    /\ \E t \in 1 .. MaxT : InitCall("pthread", t)

InitRect == InitC \/ InitOmp \/ InitPthreadInt

NextRect == NextC \/ NextOmp \/ NextPthread

SpecRect == InitRect /\ [][NextRect]_vars

---------------------------------------------------------------------------
(* The programs whose matrixes and accumulator are uint64_t: pthread, MPI  *)
(* and OpenACC.                                                            *)

InitWide == InitPthread \/ InitMpi \/ InitOacc

NextWide == NextPthread \/ NextMpi \/ NextOacc

SpecWide == InitWide /\ [][NextWide]_vars

---------------------------------------------------------------------------
(* OpenCL kernels matmult, matmult2, matmult3 of matmult-cl.cl, enqueued   *)
(* by mat_mult_cl over a global range {M, N} with work-groups of           *)
(* {BLOCK_SIZE, BLOCK_SIZE} work-items.  The work-items of a group run in  *)
(* any order the barriers allow; the device runs the groups one at a time, *)
(* starting at any group (groups share neither local memory nor cells).    *)

BLOCK_SIZE == 2    \* #define BLOCK_SIZE 16, scaled down with the matrices
MaxBlocks == 2     \* largest number of blocks per dimension explored

\* number of work-groups per dimension for a global size of mm
NumGroups(mm) == (mm + BLOCK_SIZE - 1) \div BLOCK_SIZE

GroupCount(mm) == NumGroups(mm) * NumGroups(mm)

\* <<get_group_id(0), get_group_id(1)>> of the k-th group
GroupAt(k, mm) == <<k \div NumGroups(mm), k % NumGroups(mm)>>

CurGroup == GroupAt((gfirst + gcount) % GroupCount(m), m)

\* get_local_size in a dimension: a group at the edge of a range that is not
\* a multiple of the work-group size holds the remainder only
LocalSize(g, mm) == Min(BLOCK_SIZE, mm - g * BLOCK_SIZE)

\* the <<get_local_id(0), get_local_id(1)>> of the work-items of group grp
Items(grp, mm) ==
    {<<a, b>> : a \in 0 .. LocalSize(grp[1], mm) - 1,
                b \in 0 .. LocalSize(grp[2], mm) - 1}

\* get_global_id(d) of local id loc in group g
GlobalId(g, loc) == g * BLOCK_SIZE + loc

\* iterations of for(off1 = mat1_offset ; off1 < mat1_offset + M ; off1 += BLOCK_SIZE)
LoopSteps(mm) == (mm + BLOCK_SIZE - 1) \div BLOCK_SIZE

\* off1 and off2 in block step t
Off1(mm, groupi, t) == mm * BLOCK_SIZE * groupi + t * BLOCK_SIZE
Off2(ww, groupj, t) == BLOCK_SIZE * groupj + t * BLOCK_SIZE * ww

\* matmult2: local_row[idx] = mat1[off1 + loci * M + locj];
Row2Src(o1, loci, locj, mm) == o1 + loci * mm + locj

\* matmult2: local_col[idx] = mat2[off2 + locj * W + loci];
Col2SrcMutNotTransposed(o2, loci, locj, ww) == o2 + loci * ww + locj

Col2Src(o2, loci, locj, ww) == o2 + locj * ww + loci

\* matmult3: local_row[locj][loci] = mat1[off1 + locj * M + loci];
Row3SrcMutTransposed(o1, loci, locj, mm) == o1 + loci * mm + locj

Row3Src(o1, loci, locj, mm) == o1 + locj * mm + loci

\* matmult3: local_col[locj][loci] = mat2[off2 + locj * W + loci];
Col3Src(o2, loci, locj, ww) == o2 + locj * ww + loci

\* matmult2: for k < BLOCK_SIZE: tmp += local_row[loci * BLOCK_SIZE + k] *
\*                                      local_col[locj * BLOCK_SIZE + k]
RECURSIVE LocalDot2(_, _, _, _, _, _)
LocalDot2(lr, lc, loci, locj, k, acc) ==
    IF k >= BLOCK_SIZE THEN acc
    ELSE LocalDot2(lr, lc, loci, locj, k + 1,
                   (acc + lr[loci * BLOCK_SIZE + k] * lc[locj * BLOCK_SIZE + k]) % WordMod)

\* matmult3: for k < BLOCK_SIZE: tmp += local_row[loci][k] * local_col[k][locj]
RECURSIVE LocalDot3(_, _, _, _, _, _)
LocalDot3(lr, lc, loci, locj, k, acc) ==
    IF k >= BLOCK_SIZE THEN acc
    ELSE LocalDot3(lr, lc, loci, locj, k + 1,
                   (acc + lr[loci][k] * lc[k][locj]) % WordMod)

\* result[i * M + j] = tmp;
ResultIndexMutTransposed(i, j, mm) == j * mm + i

ResultIndex(i, j, mm) == i * mm + j

\* the __local arrays of a group before any work-item stored to them
FreshLocal(k) ==
    IF k = "matmult2" THEN Fill(BLOCK_SIZE * BLOCK_SIZE, junk)
    ELSE IF k = "matmult3"
         THEN [a \in 0 .. BLOCK_SIZE - 1 |-> [b \in 0 .. BLOCK_SIZE - 1 |-> junk]]
         ELSE None

\* the work-items of group grp at the start of the kernel
StartGroup(grp) ==
    /\ ipc' = [it \in Items(grp, m) |-> IF kernel = "matmult" THEN "write" ELSE "stage"]
    /\ iter' = [it \in Items(grp, m) |-> 0]
    /\ tmp' = [it \in Items(grp, m) |-> 0]
    /\ local_row' = FreshLocal(kernel)
    /\ local_col' = FreshLocal(kernel)

InitCl ==
    /\ prog = "cl"
    /\ m \in 2 .. BLOCK_SIZE * MaxBlocks
    /\ n = m /\ w = m
    /\ threads = 1
    /\ \E s \in 0 .. MaxSeed :
          /\ mat1 = mat_init(m * n, s)
          /\ mat2 = mat_init(m * n, 2 * s)
    /\ junk \in Garbage
    /\ result = Fill(m * n, junk)
    /\ writers = [c \in 0 .. m * n - 1 |-> {}]
    /\ pc = "entry" /\ ret = "none"
    /\ created = 0 /\ joined = 0
    /\ wstate = None /\ wpos = None /\ wrow = None
    /\ run = 1 /\ first = None
    /\ oob = FALSE
    /\ IdleMpi
    /\ kernel \in {"matmult", "matmult2", "matmult3"}
    /\ gfirst = 0 /\ gcount = 0
    /\ ipc = None /\ iter = None /\ tmp = None
    /\ local_row = None /\ local_col = None
    /\ IdleHost

clFrame == <<callVars, pc, ret, workVars, runVars, junk, mpiVars, kernel, gfirst,
            hostVars>>

\* clEnqueueNDRangeKernel(queue, kernel, 2, {0, 0}, {M, N}, {16, 16}, ...)
\* accepted: the device starts with some group
ClEnqueue ==
    /\ prog = "cl" /\ pc = "entry"
    /\ pc' = "running"
    /\ gfirst' \in 0 .. GroupCount(m) - 1
    /\ gcount' = 0
    /\ StartGroup(GroupAt(gfirst', m))
    /\ UNCHANGED <<hostVars, callVars, ret, workVars, runVars, junk, mpiVars, kernel,
                   result, writers, oob>>

\* the global size is no multiple of the work-group size and the runtime
\* refuses the range (CL_INVALID_WORK_GROUP_SIZE): no work-item runs
ClEnqueueRejected ==
    /\ prog = "cl" /\ pc = "entry"
    /\ m % BLOCK_SIZE # 0
    /\ pc' = "rejected"
    /\ UNCHANGED <<hostVars, callVars, ret, workVars, runVars, junk, mpiVars, clVars,
                   result, writers, oob>>

\* barrier(CLK_LOCAL_MEM_FENCE) after the copy: every work-item of the group
\* has reached the first barrier of the block step it is in
FirstBarrierPassedMutNoWait(it) == TRUE

FirstBarrierPassed(it) == \A u \in DOMAIN ipc : iter[u] > iter[it] \/ ipc[u] = "acc"

\* barrier(CLK_LOCAL_MEM_FENCE) after the multiply loop: every work-item of
\* the group has reached the second barrier of the previous block step
SecondBarrierPassedMutNoWait(it) == TRUE

SecondBarrierPassed(it) == \A u \in DOMAIN ipc : iter[u] >= iter[it]

\* copy block of matrix from global memory to local; the work-item then
\* waits at the first barrier
ClStage(it) ==
    /\ prog = "cl" /\ pc = "running"
    /\ it \in DOMAIN ipc /\ ipc[it] = "stage"
    /\ SecondBarrierPassed(it)
    /\ LET loci == it[1]
           locj == it[2]
           o1 == Off1(m, CurGroup[1], iter[it])
           o2 == Off2(w, CurGroup[2], iter[it])
       IN  IF kernel = "matmult2"
           THEN /\ local_row' = [local_row EXCEPT ![loci * BLOCK_SIZE + locj] =
                                    Rd(mat1, Row2Src(o1, loci, locj, m))]
                /\ local_col' = [local_col EXCEPT ![loci * BLOCK_SIZE + locj] =
                                    Rd(mat2, Col2Src(o2, loci, locj, w))]
           ELSE /\ local_row' = [local_row EXCEPT ![locj][loci] =
                                    Rd(mat1, Row3Src(o1, loci, locj, m))]
                /\ local_col' = [local_col EXCEPT ![locj][loci] =
                                    Rd(mat2, Col3Src(o2, loci, locj, w))]
    /\ ipc' = [ipc EXCEPT ![it] = "acc"]
    /\ UNCHANGED <<clFrame, gcount, iter, tmp, result, writers, oob>>

\* past the first barrier: the multiply loop over k of one block step; the
\* work-item then waits at the second barrier
ClAccumulate(it) ==
    /\ prog = "cl" /\ pc = "running"
    /\ it \in DOMAIN ipc /\ ipc[it] = "acc"
    /\ FirstBarrierPassed(it)
    /\ tmp' = [tmp EXCEPT ![it] =
                  IF kernel = "matmult2"
                  THEN LocalDot2(local_row, local_col, it[1], it[2], 0, @)
                  ELSE LocalDot3(local_row, local_col, it[1], it[2], 0, @)]
    /\ iter' = [iter EXCEPT ![it] = @ + 1]
    /\ ipc' = [ipc EXCEPT ![it] =
                  IF iter[it] + 1 >= LoopSteps(m) THEN "write" ELSE "stage"]
    /\ UNCHANGED <<clFrame, gcount, local_row, local_col, result, writers, oob>>

\* result[i * M + j] = tmp; (kernel matmult computes tmp from global memory)
ClWrite(it) ==
    /\ prog = "cl" /\ pc = "running"
    /\ it \in DOMAIN ipc /\ ipc[it] = "write"
    \* block-staged kernels: the second barrier of the last step has been passed
    /\ \A u \in DOMAIN ipc : ipc[u] \in {"write", "done"}
    /\ LET i == GlobalId(CurGroup[1], it[1])
           j == GlobalId(CurGroup[2], it[2])
           v == IF kernel = "matmult" THEN Dot(mat1, mat2, i, j, n, w) ELSE tmp[it]
       IN  Store(ResultIndex(i, j, m), v, <<i, j>>)
    /\ ipc' = [ipc EXCEPT ![it] = "done"]
    /\ UNCHANGED <<clFrame, gcount, iter, tmp, local_row, local_col>>

\* every work-item of the running group has returned: the device goes on
\* with the next group, or the kernel is finished
ClGroupEnd ==
    /\ prog = "cl" /\ pc = "running"
    /\ \A u \in DOMAIN ipc : ipc[u] = "done"
    /\ gcount' = gcount + 1
    /\ IF gcount + 1 >= GroupCount(m)
       THEN /\ pc' = "finished"
            /\ UNCHANGED <<ipc, iter, tmp, local_row, local_col>>
       ELSE /\ pc' = pc
            /\ StartGroup(GroupAt((gfirst + gcount + 1) % GroupCount(m), m))
    /\ UNCHANGED <<hostVars, callVars, ret, workVars, runVars, junk, mpiVars, kernel, gfirst,
                   result, writers, oob>>

AllItems == {<<a, b>> : a \in 0 .. BLOCK_SIZE - 1, b \in 0 .. BLOCK_SIZE - 1}

NextCl ==
    \/ ClEnqueue
    \/ ClEnqueueRejected
    \/ \E it \in AllItems : ClStage(it)
    \/ \E it \in AllItems : ClAccumulate(it)
    \/ \E it \in AllItems : ClWrite(it)
    \/ ClGroupEnd

SpecCl == InitCl /\ [][NextCl]_vars

\* the device keeps running work-items as long as one of them can run
SpecClFair == SpecCl /\ WF_vars(NextCl)

---------------------------------------------------------------------------
(* The OpenCL path as shipped: mat_mult_cl creates, fills and reads back   *)
(* the three buffers as M * N elements of cl_ulong, and the kernels index  *)
(* the same bytes as int.  A cl_ulong is two ints wide (WideMod); on the   *)
(* little-endian hosts and devices the int at 2q is the low half of        *)
(* element q and the int at 2q + 1 its high half.  The variables mat1,     *)
(* mat2 and result hold the device buffers as the kernels see them.        *)

\* modulus of cl_ulong, twice the width of the kernels' int
WideMod == WordMod * WordMod

\* mat_init of matmult-cl.c: mat1[i] = i; mat2[i] = i; (seed 0 is that matrix)
HostInit(len, seed) == [i \in 0 .. len - 1 |-> (i + seed) % WideMod]

\* clCreateBuffer(..., CL_MEM_COPY_HOST_PTR, M * N * sizeof(cl_ulong), mat, ...):
\* the bytes of the len host elements, as the ints the kernel indexes
IntView(h, len) ==
    [q \in 0 .. 2 * len - 1 |->
        IF q % 2 = 0 THEN h[q \div 2] % WordMod ELSE h[q \div 2] \div WordMod]

\* element q of a buffer of cl_ulong, from the ints that make it up
HostWord(a, q) == a[2 * q] + WordMod * a[2 * q + 1]

\* main: mat_init, then mat_mult_cl creates the buffers; output_result is
\* created without host data and holds whatever the device memory held
InitShipped ==
    /\ prog = "cl"
    /\ m \in 2 .. BLOCK_SIZE * MaxBlocks
    /\ n = m /\ w = m
    /\ threads = 1
    /\ \E s \in 0 .. MaxSeed :
          /\ mat1 = IntView(HostInit(m * n, s), m * n)
          /\ mat2 = IntView(HostInit(m * n, 2 * s), m * n)
    /\ junk \in Garbage
    /\ result = Fill(2 * m * n, junk)
    /\ writers = [c \in 0 .. 2 * m * n - 1 |-> {}]
    /\ pc = "entry" /\ ret = "none"
    /\ created = 0 /\ joined = 0
    /\ wstate = None /\ wpos = None /\ wrow = None
    /\ run = 1 /\ first = None
    /\ oob = FALSE
    /\ IdleMpi
    /\ kernel \in {"matmult", "matmult2", "matmult3"}
    /\ gfirst = 0 /\ gcount = 0
    /\ ipc = None /\ iter = None /\ tmp = None
    /\ local_row = None /\ local_col = None
    /\ IdleHost

\* clEnqueueReadBuffer(queue, output_result, CL_FALSE, 0,
\*     M * N * sizeof(cl_ulong), result, ...); clFinish(queue);
\* the queue is in order: the copy runs once the kernel has finished
ShippedReadBuffer ==
    /\ prog = "cl" /\ pc = "finished"
    /\ pc' = "read"
    /\ hostres' = [q \in 0 .. m * n - 1 |-> HostWord(result, q)]
    /\ UNCHANGED <<callVars, result, ret, workVars, writers, runVars, junk, oob,
                   mpiVars, clVars, hi, hdi, hki, nb_platforms, nb_devices,
                   nb_kernels, success, finished, pseen, dseen, kseen, held, rfault>>

NextShipped == NextCl \/ ShippedReadBuffer

SpecShipped == InitShipped /\ [][NextShipped]_vars

---------------------------------------------------------------------------
(* OpenCL host: the control flow of mat_mult_cl over platforms, devices    *)
(* and kernels.  What the OpenCL runtime and the util_opencl helpers       *)
(* answer is the environment's choice; a kernel run is one step here.      *)

MaxPlatforms == 2  \* largest number of platforms explored
MaxDevices == 2    \* largest number of devices per platform explored
MaxKernels == 2    \* largest number of kernels per program explored

\* resources of one platform iteration, of one device iteration, and all
PlatformResources == {"devices", "context", "program", "kernels"}

DeviceResources == {"queue", "input_mat1", "input_mat2", "output_result"}

Resources == {"platforms"} \cup PlatformResources \cup DeviceResources

\* a resource is acquired: its variable now holds a live handle
Acquire(h, rs) == [r \in DOMAIN h |-> IF r \in rs THEN "live" ELSE h[r]]

\* free / clRelease* of the handles rs: a live one is released, a null one is
\* left alone (free(NULL), or an error return of clRelease*)
Release(h, rs) ==
    [r \in DOMAIN h |-> IF r \in rs /\ h[r] = "live" THEN "dead" ELSE h[r]]

\* the faults a release of rs and a use of us add: double release, use after release
Faults(h, rs, us) ==
    (IF \E r \in rs : h[r] = "dead" THEN {"double release"} ELSE {})
    \cup (IF \E r \in us : h[r] = "dead" THEN {"use after release"} ELSE {})

\* the variables of a loop body are new in every iteration; a handle still
\* live when its variable goes out of scope is lost
Rescope(h, rs) == [r \in DOMAIN h |-> IF r \in rs THEN "null" ELSE h[r]]

Lost(h, rs) == IF \E r \in rs : h[r] = "live" THEN {"leak"} ELSE {}

\* continue; in a for loop over idx < count
ContinueMutBreak(idx, count) == count

Continue(idx, count) == idx + 1

\* what the failure paths of the platform loop release before continue
ReleasedOnContextFail == {"devices"}

ReleasedOnProgramFail == {"context", "devices"}

ReleasedOnBuildFail == {"program", "context", "devices"}

ReleasedOnKernelsFailMutLeak == {"program", "context"}

ReleasedOnKernelsFail == {"program", "context", "devices"}

\* success = 1; after clFinish(queue)
SuccessAfter == {"finish"}

InitHost ==
    /\ prog = "clhost"
    /\ m = 2 /\ n = 2 /\ w = 2 /\ threads = 1
    /\ mat1 = mat_init(m * n, 0) /\ mat2 = mat_init(m * n, 0)
    /\ junk = 0
    /\ result = Fill(m * n, junk)
    /\ writers = None
    /\ pc = "entry" /\ ret = "none"
    /\ created = 0 /\ joined = 0
    /\ wstate = None /\ wpos = None /\ wrow = None
    /\ run = 1 /\ first = None
    /\ oob = FALSE
    /\ IdleMpi
    /\ IdleCl
    /\ IdleCmd
    /\ hi = 0 /\ hdi = 0 /\ hki = 0
    /\ nb_platforms = 0 /\ nb_devices = 0 /\ nb_kernels = 0
    /\ success = 0 /\ finished = 0
    /\ pseen = 0 /\ dseen = 0 /\ kseen = 0
    /\ held = [r \in Resources |-> "null"]
    /\ rfault = {}
    /\ hostres = None

hostFrame == <<callVars, result, workVars, writers, runVars, junk, oob, mpiVars,
               clVars, hostres>>

\* the platform iteration is left by continue (or by its end): i++
NextPlatform(rel, use) ==
    /\ hi' = Continue(hi, nb_platforms)
    /\ pc' = "platform"
    /\ held' = Release(held, rel)
    /\ rfault' = rfault \cup Faults(held, rel, use)

\* if((nb_platforms = opencl_get_platforms(&platforms, &status)) <= 0) return -1;
HostGetPlatforms ==
    /\ prog = "clhost" /\ pc = "entry"
    /\ \E np \in 0 .. MaxPlatforms :
          /\ nb_platforms' = np
          /\ IF np <= 0
             THEN /\ pc' = "returned" /\ ret' = "-1"
                  /\ held' = held
             ELSE /\ pc' = "platform" /\ ret' = ret
                  /\ held' = Acquire(held, {"platforms"})
    /\ hi' = 0
    /\ UNCHANGED <<hostFrame, hdi, hki, nb_devices, nb_kernels, success, finished,
                   pseen, dseen, kseen, rfault>>

\* top of the platform loop body: the body's variables are declared, then
\* if((nb_devices = opencl_get_devices(platforms[i], &devices, ...)) <= 0) continue;
HostGetDevices ==
    /\ prog = "clhost" /\ pc = "platform" /\ hi < nb_platforms
    /\ pseen' = pseen + 1
    /\ \E nd \in 0 .. MaxDevices :
          /\ nb_devices' = nd
          /\ LET fresh == Rescope(held, PlatformResources \cup DeviceResources)
                 lost == Lost(held, PlatformResources \cup DeviceResources)
                        \cup Faults(held, {}, {"platforms"})
             IN  IF nd <= 0
                 THEN /\ hi' = Continue(hi, nb_platforms)
                      /\ pc' = "platform"
                      /\ held' = fresh
                      /\ rfault' = rfault \cup lost
                 ELSE /\ hi' = hi
                      /\ pc' = "context"
                      /\ held' = Acquire(fresh, {"devices"})
                      /\ rfault' = rfault \cup lost
    /\ UNCHANGED <<hostFrame, ret, hdi, hki, nb_platforms, nb_kernels, success,
                   finished, dseen, kseen>>

\* context = clCreateContext(...); if(status != CL_SUCCESS) { free(devices); continue; }
HostCreateContext ==
    /\ prog = "clhost" /\ pc = "context"
    /\ \/ /\ held' = Acquire(held, {"context"})
          /\ rfault' = rfault \cup Faults(held, {}, {"devices"})
          /\ pc' = "program" /\ hi' = hi
       \/ NextPlatform(ReleasedOnContextFail, {"devices"})
    /\ UNCHANGED <<hostFrame, ret, hdi, hki, nb_platforms, nb_devices, nb_kernels,
                   success, finished, pseen, dseen, kseen>>

\* if((ret = opencl_get_program_from_file(context, ..., &program, &status)) != 0)
\* { clReleaseContext(context); free(devices); continue; }
HostGetProgram ==
    /\ prog = "clhost" /\ pc = "program"
    /\ \/ /\ held' = Acquire(held, {"program"})
          /\ rfault' = rfault \cup Faults(held, {}, {"context"})
          /\ pc' = "build" /\ hi' = hi
       \/ NextPlatform(ReleasedOnProgramFail, {"context"})
    /\ UNCHANGED <<hostFrame, ret, hdi, hki, nb_platforms, nb_devices, nb_kernels,
                   success, finished, pseen, dseen, kseen>>

\* if((status = clBuildProgram(program, nb_devices, devices, ...)) != CL_SUCCESS)
\* { ...build log...; clReleaseProgram; clReleaseContext; free(devices); continue; }
HostBuildProgram ==
    /\ prog = "clhost" /\ pc = "build"
    /\ \/ /\ held' = held
          /\ rfault' = rfault \cup Faults(held, {}, {"program", "devices"})
          /\ pc' = "kernels" /\ hi' = hi
       \/ NextPlatform(ReleasedOnBuildFail, {"program", "devices"})
    /\ UNCHANGED <<hostFrame, ret, hdi, hki, nb_platforms, nb_devices, nb_kernels,
                   success, finished, pseen, dseen, kseen>>

\* if((nb_kernels = opencl_get_kernels(program, &kernels, &status)) <= 0)
\* { clReleaseProgram; clReleaseContext; free(devices); continue; }
\* otherwise the device loop starts: di = 0
HostGetKernels ==
    /\ prog = "clhost" /\ pc = "kernels"
    /\ \E nk \in 0 .. MaxKernels :
          /\ nb_kernels' = nk
          /\ IF nk <= 0
             THEN NextPlatform(ReleasedOnKernelsFail, {"program"})
             ELSE /\ held' = Acquire(held, {"kernels"})
                  /\ rfault' = rfault \cup Faults(held, {}, {"program"})
                  /\ pc' = "device" /\ hi' = hi
    /\ hdi' = 0 /\ dseen' = 0
    /\ UNCHANGED <<hostFrame, ret, hki, nb_platforms, nb_devices, success, finished,
                   pseen, kseen>>

\* the kernel iteration is left by continue (or by its end): ki++
NextKernel(use) ==
    /\ hki' = Continue(hki, nb_kernels)
    /\ pc' = "kernel"
    /\ rfault' = rfault \cup Faults(held, {}, use)

\* a step of the kernel loop body went well: on to the next statement
KernelStep(use, to) ==
    /\ hki' = hki
    /\ pc' = to
    /\ rfault' = rfault \cup Faults(held, {}, use)

\* top of the device loop body: queue = clCreateCommandQueue(context, device, ...);
\* if(status != CL_SUCCESS) continue;
HostCreateQueue ==
    /\ prog = "clhost" /\ pc = "device" /\ hdi < nb_devices
    /\ dseen' = dseen + 1
    /\ LET fresh == Rescope(held, {"queue"})
           flt == Lost(held, {"queue"}) \cup Faults(held, {}, {"context", "devices"})
       IN  \/ /\ held' = Acquire(fresh, {"queue"})
              /\ rfault' = rfault \cup flt
              /\ pc' = "buffers" /\ hdi' = hdi
           \/ /\ held' = fresh
              /\ rfault' = rfault \cup flt
              /\ pc' = "device" /\ hdi' = Continue(hdi, nb_devices)
    /\ UNCHANGED <<hostFrame, ret, hi, hki, nb_platforms, nb_devices, nb_kernels,
                   success, finished, pseen, kseen>>

\* input_mat1 = clCreateBuffer(...); input_mat2 = ...; output_result = ...;
\* the status is not looked at: any of the three may have failed (handle NULL).
\* The kernel loop starts: ki = 0
HostCreateBuffers ==
    /\ prog = "clhost" /\ pc = "buffers"
    /\ \E got \in SUBSET {"input_mat1", "input_mat2", "output_result"} :
          held' = Acquire(Rescope(held, {"input_mat1", "input_mat2", "output_result"}), got)
    /\ rfault' = rfault \cup Lost(held, {"input_mat1", "input_mat2", "output_result"})
                        \cup Faults(held, {}, {"context"})
    /\ pc' = "kernel" /\ hki' = 0 /\ kseen' = 0
    /\ UNCHANGED <<hostFrame, ret, hi, hdi, nb_platforms, nb_devices, nb_kernels,
                   success, finished, pseen, dseen>>

\* top of the kernel loop body: clSetKernelArg x 6;
\* if(status != CL_SUCCESS) continue;
HostSetArgs ==
    /\ prog = "clhost" /\ pc = "kernel" /\ hki < nb_kernels
    /\ kseen' = kseen + 1
    /\ LET use == {"kernels", "input_mat1", "input_mat2", "output_result"}
       IN  KernelStep(use, "enqueue") \/ NextKernel(use)
    /\ UNCHANGED <<hostFrame, ret, hi, hdi, nb_platforms, nb_devices, nb_kernels,
                   success, finished, pseen, dseen, held>>

\* if((status = clEnqueueNDRangeKernel(queue, kernels[ki], ...)) != CL_SUCCESS) continue;
HostEnqueueKernel ==
    /\ prog = "clhost" /\ pc = "enqueue"
    /\ \/ /\ KernelStep({"queue", "kernels"}, "read")
          /\ success' = IF pc \in SuccessAfter THEN 1 ELSE success
       \/ /\ NextKernel({"queue", "kernels"})
          /\ success' = success
    /\ UNCHANGED <<hostFrame, ret, hi, hdi, nb_platforms, nb_devices, nb_kernels,
                   finished, pseen, dseen, kseen, held>>

\* if((status = clEnqueueReadBuffer(queue, output_result, CL_FALSE, ..., result, ...))
\*    != CL_SUCCESS) continue;
HostEnqueueRead ==
    /\ prog = "clhost" /\ pc = "read"
    /\ \/ /\ KernelStep({"queue", "output_result"}, "finish")
          /\ success' = IF pc \in SuccessAfter THEN 1 ELSE success
       \/ /\ NextKernel({"queue", "output_result"})
          /\ success' = success
    /\ UNCHANGED <<hostFrame, ret, hi, hdi, nb_platforms, nb_devices, nb_kernels,
                   finished, pseen, dseen, kseen, held>>

\* clFinish(queue); end = ...; success = 1; end of the kernel loop body
HostFinish ==
    /\ prog = "clhost" /\ pc = "finish"
    /\ NextKernel({"queue"})
    /\ success' = IF pc \in SuccessAfter THEN 1 ELSE success
    /\ finished' = finished + 1
    /\ UNCHANGED <<hostFrame, ret, hi, hdi, nb_platforms, nb_devices, nb_kernels,
                   pseen, dseen, kseen, held>>

\* the kernel loop is over: clReleaseMemObject x 3; clReleaseCommandQueue(queue);
\* end of the device loop body
HostDeviceEnd ==
    /\ prog = "clhost" /\ pc = "kernel" /\ hki >= nb_kernels
    /\ held' = Release(held, DeviceResources)
    /\ rfault' = rfault \cup Faults(held, DeviceResources, {})
    /\ hdi' = hdi + 1
    /\ pc' = "device"
    /\ UNCHANGED <<hostFrame, ret, hi, hki, nb_platforms, nb_devices, nb_kernels,
                   success, finished, pseen, dseen, kseen>>

\* the device loop is over: opencl_release_kernels(&kernels, nb_kernels);
\* clReleaseProgram; clReleaseContext; free(devices); end of the platform loop body
HostPlatformEnd ==
    /\ prog = "clhost" /\ pc = "device" /\ hdi >= nb_devices
    /\ held' = Release(held, PlatformResources)
    /\ rfault' = rfault \cup Faults(held, PlatformResources, {})
    /\ hi' = hi + 1
    /\ pc' = "platform"
    /\ UNCHANGED <<hostFrame, ret, hdi, hki, nb_platforms, nb_devices, nb_kernels,
                   success, finished, pseen, dseen, kseen>>

\* the platform loop is over: free(platforms); return success ? 0 : -1;
HostReturn ==
    /\ prog = "clhost" /\ pc = "platform" /\ hi >= nb_platforms
    /\ held' = Release(held, {"platforms"})
    /\ rfault' = rfault \cup Faults(held, {"platforms"}, {})
                        \cup Lost(held, PlatformResources \cup DeviceResources)
    /\ ret' = IF success # 0 THEN "0" ELSE "-1"
    /\ pc' = "returned"
    /\ UNCHANGED <<hostFrame, hi, hdi, hki, nb_platforms, nb_devices, nb_kernels,
                   success, finished, pseen, dseen, kseen>>

NextHost ==
    \/ HostGetPlatforms
    \/ HostGetDevices
    \/ HostCreateContext
    \/ HostGetProgram
    \/ HostBuildProgram
    \/ HostGetKernels
    \/ HostCreateQueue
    \/ HostCreateBuffers
    \/ HostSetArgs
    \/ HostEnqueueKernel
    \/ HostEnqueueRead
    \/ HostFinish
    \/ HostDeviceEnd
    \/ HostPlatformEnd
    \/ HostReturn

SpecHost == InitHost /\ [][NextHost]_vars

---------------------------------------------------------------------------
(* OpenCL host of the int program: mat_mult_cl builds the program for the  *)
(* platform and then, inside the device loop, creates the queue and        *)
(* retrieves the kernels for each device.  The platform loop up to the     *)
(* build and the kernel loop read as in the cl_ulong program; the handles  *)
(* and counters are the same variables.                                    *)

\* the handles acquired and released once per platform, and once per device
IntPlatformResources == {"devices", "context", "program"}

IntDeviceResources == {"queue", "kernels", "input_mat1", "input_mat2", "output_result"}

\* what the failure path of opencl_get_kernels releases before continue
ReleasedOnDeviceKernelsFail == {"queue", "program", "context", "devices"}

InitIntHost ==
    /\ prog = "clhost-int"
    /\ m = 2 /\ n = 2 /\ w = 2 /\ threads = 1
    /\ mat1 = mat_init(m * n, 0) /\ mat2 = mat_init(m * n, 0)
    /\ junk = 0
    /\ result = Fill(m * n, junk)
    /\ writers = None
    /\ pc = "entry" /\ ret = "none"
    /\ created = 0 /\ joined = 0
    /\ wstate = None /\ wpos = None /\ wrow = None
    /\ run = 1 /\ first = None
    /\ oob = FALSE
    /\ IdleMpi
    /\ IdleCl
    /\ IdleCmd
    /\ hi = 0 /\ hdi = 0 /\ hki = 0
    /\ nb_platforms = 0 /\ nb_devices = 0 /\ nb_kernels = 0
    /\ success = 0 /\ finished = 0
    /\ pseen = 0 /\ dseen = 0 /\ kseen = 0
    /\ held = [r \in Resources |-> "null"]
    /\ rfault = {}
    /\ hostres = None

\* the device iteration is left by continue (or by its end): device_idx++
NextDevice(rel, use) ==
    /\ hdi' = Continue(hdi, nb_devices)
    /\ pc' = "device"
    /\ held' = Release(held, rel)
    /\ rfault' = rfault \cup Faults(held, rel, use)

\* if((nb_platforms = opencl_get_platforms(&platforms, &status)) <= 0) return -1;
IntHostGetPlatforms ==
    /\ prog = "clhost-int" /\ pc = "entry"
    /\ \E np \in 0 .. MaxPlatforms :
          /\ nb_platforms' = np
          /\ IF np <= 0
             THEN /\ pc' = "returned" /\ ret' = "-1"
                  /\ held' = held
             ELSE /\ pc' = "platform" /\ ret' = ret
                  /\ held' = Acquire(held, {"platforms"})
    /\ hi' = 0
    /\ UNCHANGED <<hostFrame, hdi, hki, nb_devices, nb_kernels, success, finished,
                   pseen, dseen, kseen, rfault>>

\* top of the platform loop body: the body's variables are declared, then
\* if((nb_devices = opencl_get_devices(platforms[i], &devices, ...)) <= 0) continue;
IntHostGetDevices ==
    /\ prog = "clhost-int" /\ pc = "platform" /\ hi < nb_platforms
    /\ pseen' = pseen + 1
    /\ \E nd \in 0 .. MaxDevices :
          /\ nb_devices' = nd
          /\ LET fresh == Rescope(held, IntPlatformResources \cup IntDeviceResources)
                 lost == Lost(held, IntPlatformResources \cup IntDeviceResources)
                        \cup Faults(held, {}, {"platforms"})
             IN  IF nd <= 0
                 THEN /\ hi' = Continue(hi, nb_platforms)
                      /\ pc' = "platform"
                      /\ held' = fresh
                      /\ rfault' = rfault \cup lost
                 ELSE /\ hi' = hi
                      /\ pc' = "context"
                      /\ held' = Acquire(fresh, {"devices"})
                      /\ rfault' = rfault \cup lost
    /\ UNCHANGED <<hostFrame, ret, hdi, hki, nb_platforms, nb_kernels, success,
                   finished, dseen, kseen>>

\* context = clCreateContext(...); if(status != CL_SUCCESS) { free(devices); continue; }
IntHostCreateContext ==
    /\ prog = "clhost-int" /\ pc = "context"
    /\ \/ /\ held' = Acquire(held, {"context"})
          /\ rfault' = rfault \cup Faults(held, {}, {"devices"})
          /\ pc' = "program" /\ hi' = hi
       \/ NextPlatform(ReleasedOnContextFail, {"devices"})
    /\ UNCHANGED <<hostFrame, ret, hdi, hki, nb_platforms, nb_devices, nb_kernels,
                   success, finished, pseen, dseen, kseen>>

\* if((ret = opencl_get_program_from_file(context, ..., &program, &status)) != 0)
\* { clReleaseContext(context); free(devices); continue; }
IntHostGetProgram ==
    /\ prog = "clhost-int" /\ pc = "program"
    /\ \/ /\ held' = Acquire(held, {"program"})
          /\ rfault' = rfault \cup Faults(held, {}, {"context"})
          /\ pc' = "build" /\ hi' = hi
       \/ NextPlatform(ReleasedOnProgramFail, {"context"})
    /\ UNCHANGED <<hostFrame, ret, hdi, hki, nb_platforms, nb_devices, nb_kernels,
                   success, finished, pseen, dseen, kseen>>

\* if((status = clBuildProgram(program, nb_devices, devices, ...)) != CL_SUCCESS)
\* { ...build log...; clReleaseProgram; clReleaseContext; free(devices); continue; }
\* otherwise the device loop starts: device_idx = 0
IntHostBuildProgram ==
    /\ prog = "clhost-int" /\ pc = "build"
    /\ \/ /\ held' = held
          /\ rfault' = rfault \cup Faults(held, {}, {"program", "devices"})
          /\ pc' = "device" /\ hi' = hi
       \/ NextPlatform(ReleasedOnBuildFail, {"program", "devices"})
    /\ hdi' = 0 /\ dseen' = 0
    /\ UNCHANGED <<hostFrame, ret, hki, nb_platforms, nb_devices, nb_kernels,
                   success, finished, pseen, kseen>>

\* top of the device loop body: queue = clCreateCommandQueue(context,
\* devices[device_idx], ...); if(status != CL_SUCCESS) continue;
\* else clGetDeviceInfo(devices[device_idx], ...).  The test of status that
\* follows clGetDeviceInfo is never true: status still holds the CL_SUCCESS
\* of the queue creation.
IntHostCreateQueue ==
    /\ prog = "clhost-int" /\ pc = "device" /\ hdi < nb_devices
    /\ dseen' = dseen + 1
    /\ LET fresh == Rescope(held, {"queue"})
           flt == Lost(held, {"queue"}) \cup Faults(held, {}, {"context", "devices"})
       IN  \/ /\ held' = Acquire(fresh, {"queue"})
              /\ rfault' = rfault \cup flt
              /\ pc' = "kernels" /\ hdi' = hdi
           \/ /\ held' = fresh
              /\ rfault' = rfault \cup flt
              /\ pc' = "device" /\ hdi' = Continue(hdi, nb_devices)
    /\ UNCHANGED <<hostFrame, ret, hi, hki, nb_platforms, nb_devices, nb_kernels,
                   success, finished, pseen, kseen>>

\* if((nb_kernels = opencl_get_kernels(program, &kernels, &status)) <= 0)
\* { clReleaseCommandQueue(queue); clReleaseProgram(program);
\*   clReleaseContext(context); free(devices); continue; }
\* the continue is the device loop's
IntHostGetKernels ==
    /\ prog = "clhost-int" /\ pc = "kernels"
    /\ \E nk \in 0 .. MaxKernels :
          /\ nb_kernels' = nk
          /\ IF nk <= 0
             THEN NextDevice(ReleasedOnDeviceKernelsFail, {"program"})
             ELSE /\ held' = Acquire(Rescope(held, {"kernels"}), {"kernels"})
                  /\ rfault' = rfault \cup Lost(held, {"kernels"})
                                      \cup Faults(held, {}, {"program"})
                  /\ pc' = "buffers" /\ hdi' = hdi
    /\ UNCHANGED <<hostFrame, ret, hi, hki, nb_platforms, nb_devices, success,
                   finished, pseen, dseen, kseen>>

\* input_mat1 = clCreateBuffer(context, ...); input_mat2 = ...; output_result = ...;
\* the status is not looked at: any of the three may have failed (handle NULL).
\* The kernel loop starts: j = 0
IntHostCreateBuffers ==
    /\ prog = "clhost-int" /\ pc = "buffers"
    /\ \E got \in SUBSET {"input_mat1", "input_mat2", "output_result"} :
          held' = Acquire(Rescope(held, {"input_mat1", "input_mat2", "output_result"}), got)
    /\ rfault' = rfault \cup Lost(held, {"input_mat1", "input_mat2", "output_result"})
                        \cup Faults(held, {}, {"context"})
    /\ pc' = "kernel" /\ hki' = 0 /\ kseen' = 0
    /\ UNCHANGED <<hostFrame, ret, hi, hdi, nb_platforms, nb_devices, nb_kernels,
                   success, finished, pseen, dseen>>

\* top of the kernel loop body: clGetKernelInfo; clSetKernelArg x 6;
\* if(status != CL_SUCCESS) continue;
IntHostSetArgs ==
    /\ prog = "clhost-int" /\ pc = "kernel" /\ hki < nb_kernels
    /\ kseen' = kseen + 1
    /\ LET use == {"kernels", "input_mat1", "input_mat2", "output_result"}
       IN  KernelStep(use, "enqueue") \/ NextKernel(use)
    /\ UNCHANGED <<hostFrame, ret, hi, hdi, nb_platforms, nb_devices, nb_kernels,
                   success, finished, pseen, dseen, held>>

\* if((status = clEnqueueNDRangeKernel(queue, kernels[j], ...)) != CL_SUCCESS) continue;
IntHostEnqueueKernel ==
    /\ prog = "clhost-int" /\ pc = "enqueue"
    /\ \/ KernelStep({"queue", "kernels"}, "read")
       \/ NextKernel({"queue", "kernels"})
    /\ UNCHANGED <<hostFrame, ret, hi, hdi, nb_platforms, nb_devices, nb_kernels,
                   success, finished, pseen, dseen, kseen, held>>

\* if((status = clEnqueueReadBuffer(queue, output_result, CL_FALSE, ..., result, ...))
\*    != CL_SUCCESS) continue;
IntHostEnqueueRead ==
    /\ prog = "clhost-int" /\ pc = "read"
    /\ \/ KernelStep({"queue", "output_result"}, "finish")
       \/ NextKernel({"queue", "output_result"})
    /\ UNCHANGED <<hostFrame, ret, hi, hdi, nb_platforms, nb_devices, nb_kernels,
                   success, finished, pseen, dseen, kseen, held>>

\* clFinish(queue); end = ...; success = 1; end of the kernel loop body
IntHostFinish ==
    /\ prog = "clhost-int" /\ pc = "finish"
    /\ NextKernel({"queue"})
    /\ success' = 1
    /\ finished' = finished + 1
    /\ UNCHANGED <<hostFrame, ret, hi, hdi, nb_platforms, nb_devices, nb_kernels,
                   pseen, dseen, kseen, held>>

\* the kernel loop is over: clReleaseMemObject x 3;
\* opencl_release_kernels(&kernels, nb_kernels); clReleaseCommandQueue(queue);
\* end of the device loop body
IntHostDeviceEnd ==
    /\ prog = "clhost-int" /\ pc = "kernel" /\ hki >= nb_kernels
    /\ NextDevice(IntDeviceResources, {})
    /\ UNCHANGED <<hostFrame, ret, hi, hki, nb_platforms, nb_devices, nb_kernels,
                   success, finished, pseen, dseen, kseen>>

\* the device loop is over: clReleaseProgram(program); clReleaseContext(context);
\* free(devices); end of the platform loop body
IntHostPlatformEnd ==
    /\ prog = "clhost-int" /\ pc = "device" /\ hdi >= nb_devices
    /\ NextPlatform(IntPlatformResources, {})
    /\ UNCHANGED <<hostFrame, ret, hdi, hki, nb_platforms, nb_devices, nb_kernels,
                   success, finished, pseen, dseen, kseen>>

\* the platform loop is over: free(platforms); return success ? 0 : -1;
IntHostReturn ==
    /\ prog = "clhost-int" /\ pc = "platform" /\ hi >= nb_platforms
    /\ held' = Release(held, {"platforms"})
    /\ rfault' = rfault \cup Faults(held, {"platforms"}, {})
                        \cup Lost(held, IntPlatformResources \cup IntDeviceResources)
    /\ ret' = IF success # 0 THEN "0" ELSE "-1"
    /\ pc' = "returned"
    /\ UNCHANGED <<hostFrame, hi, hdi, hki, nb_platforms, nb_devices, nb_kernels,
                   success, finished, pseen, dseen, kseen>>

NextIntHost ==
    \/ IntHostGetPlatforms
    \/ IntHostGetDevices
    \/ IntHostCreateContext
    \/ IntHostGetProgram
    \/ IntHostBuildProgram
    \/ IntHostGetKernels
    \/ IntHostCreateQueue
    \/ IntHostCreateBuffers
    \/ IntHostSetArgs
    \/ IntHostEnqueueKernel
    \/ IntHostEnqueueRead
    \/ IntHostFinish
    \/ IntHostDeviceEnd
    \/ IntHostPlatformEnd
    \/ IntHostReturn

SpecIntHost == InitIntHost /\ [][NextIntHost]_vars

---------------------------------------------------------------------------
(* Command line of the threaded programs (pthread, OpenMP, MPI): main      *)
(* calls parse_cmdline and exits or goes on according to its result.  The  *)
(* options are taken with the value atol made of their argument.           *)

MaxArgs == 3          \* largest number of options on a command line explored
EXIT_FAILURE == 1     \* <stdlib.h>
DEFAULT_ROW_SIZE == 2 \* static const size_t DEFAULT_ROW_SIZE = 1024, scaled down

Mains == {"pthread-main", "omp-main", "mpi-main"}

\* an accepted and a rejected value for each option that takes one; x is a
\* letter that is not in the option string
Options ==
    {<<"h", 0>>, <<"p", 0>>, <<"x", 0>>} \cup
    {<<o, v>> : o \in {"m", "n"}, v \in {1, 3}} \cup
    {<<"t", v>> : v \in {-1, 0, 2}}

\* "hpm:n:t:" in matmult-omp.c, "hpm:t:" in the two others
Known(p, letter) ==
    letter \in (IF p = "omp-main" THEN {"h", "p", "m", "n", "t"}
                                  ELSE {"h", "p", "m", "t"})

\* sequences of options of length len
RECURSIVE ArgLists(_)
ArgLists(len) ==
    IF len = 0 THEN {<< >>}
    ELSE {Append(a, o) : a \in ArgLists(len - 1), o \in Options}

\* int ret = 1; long m = DEFAULT_ROW_SIZE; int threads = sysconf(...);
InitCmdline ==
    /\ prog \in Mains
    /\ m = 0 /\ n = 0 /\ w = 0 /\ threads = 0
    /\ mat1 = None /\ mat2 = None
    /\ junk = 0
    /\ IdleCall /\ IdleMpi /\ IdleCl
    /\ hi = 0 /\ hdi = 0 /\ hki = 0
    /\ nb_platforms = 0 /\ nb_devices = 0 /\ nb_kernels = 0
    /\ success = 0 /\ finished = 0
    /\ pseen = 0 /\ dseen = 0 /\ kseen = 0
    /\ held = << >> /\ rfault = {} /\ hostres = << >>
    /\ \E len \in 0 .. MaxArgs : argv \in ArgLists(len)
    /\ optind = 1
    /\ parse_ret = 1
    /\ cfg_m = DEFAULT_ROW_SIZE /\ cfg_n = DEFAULT_ROW_SIZE /\ cfg_threads = 1
    /\ rejected = {} /\ helped = FALSE
    /\ main_pc = "getopt"

cmdFrame == <<prog, m, n, w, threads, mat1, mat2, argv, result, pc, ret, workVars,
              writers, runVars, junk, oob, mpiVars, clVars, hi, hdi, hki,
              nb_platforms, nb_devices, nb_kernels, success, finished, pseen,
              dseen, kseen, held, rfault, hostres>>

\* getopt returned option number optind of the command line
Opt(letter) ==
    /\ prog \in Mains /\ main_pc = "getopt"
    /\ optind <= Len(argv)
    /\ argv[optind][1] = letter
    /\ optind' = optind + 1

\* the value parse_cmdline assigns to ret when -t is rejected
BadThreadsRet == EXIT_FAILURE

\* case 'h': print_help(argv[0]); return 0;
CmdHelp ==
    /\ Opt("h")
    /\ parse_ret' = 0
    /\ helped' = TRUE
    /\ main_pc' = "returned"
    /\ UNCHANGED <<cmdFrame, cfg_m, cfg_n, cfg_threads, rejected>>

\* case 'p': print_matrix = 1;
CmdPrint ==
    /\ Opt("p")
    /\ UNCHANGED <<cmdFrame, parse_ret, cfg_m, cfg_n, cfg_threads, rejected, helped,
                   main_pc>>

\* case 'm': m = atol(optarg); if(m < 2) { fprintf(stderr, "Bad argument ..."); ret = -1; }
CmdRowSize ==
    /\ Opt("m")
    /\ cfg_m' = argv[optind][2]
    /\ IF argv[optind][2] < 2
       THEN parse_ret' = -1 /\ rejected' = rejected \cup {"m"}
       ELSE UNCHANGED <<parse_ret, rejected>>
    /\ UNCHANGED <<cmdFrame, cfg_n, cfg_threads, helped, main_pc>>

\* matmult-omp.c, case 'n': n = atol(optarg); if(n < 2) { ...; ret = -1; }
CmdColumnSize ==
    /\ Opt("n") /\ Known(prog, "n")
    /\ cfg_n' = argv[optind][2]
    /\ IF argv[optind][2] < 2
       THEN parse_ret' = -1 /\ rejected' = rejected \cup {"n"}
       ELSE UNCHANGED <<parse_ret, rejected>>
    /\ UNCHANGED <<cmdFrame, cfg_m, cfg_threads, helped, main_pc>>

\* case 't': threads = atol(optarg);
\* if(threads <= 0) { fprintf(stderr, "Bad argument ..."); ret = EXIT_FAILURE; }
CmdThreads ==
    /\ Opt("t")
    /\ cfg_threads' = argv[optind][2]
    /\ IF argv[optind][2] <= 0
       THEN parse_ret' = BadThreadsRet /\ rejected' = rejected \cup {"t"}
       ELSE UNCHANGED <<parse_ret, rejected>>
    /\ UNCHANGED <<cmdFrame, cfg_m, cfg_n, helped, main_pc>>

\* default: fprintf(stderr, "Bad option (%c)\n", optopt); ret = -1;
CmdBadOption ==
    /\ \E letter \in {"x", "n"} : Opt(letter) /\ ~Known(prog, letter)
    /\ parse_ret' = -1
    /\ rejected' = rejected \cup {"option"}
    /\ UNCHANGED <<cmdFrame, cfg_m, cfg_n, cfg_threads, helped, main_pc>>

\* getopt returned -1: configuration->m = m; ...; return ret;
\* (matmult-mpi.c built without OpenMP sets configuration->threads = 1)
CmdReturn ==
    /\ prog \in Mains /\ main_pc = "getopt"
    /\ optind > Len(argv)
    /\ main_pc' = "returned"
    /\ cfg_threads' \in (IF prog = "mpi-main" THEN {cfg_threads, 1} ELSE {cfg_threads})
    /\ UNCHANGED <<cmdFrame, optind, parse_ret, cfg_m, cfg_n, rejected, helped>>

\* main: if(ret == 0) exit(EXIT_SUCCESS);
MainExitSuccess ==
    /\ prog \in Mains /\ main_pc = "returned"
    /\ parse_ret = 0
    /\ main_pc' = "exit success"
    /\ UNCHANGED <<cmdFrame, optind, parse_ret, cfg_m, cfg_n, cfg_threads, rejected,
                   helped>>

\* main: else if(ret == -1) exit(EXIT_FAILURE);
MainExitFailure ==
    /\ prog \in Mains /\ main_pc = "returned"
    /\ parse_ret = -1
    /\ main_pc' = "exit failure"
    /\ UNCHANGED <<cmdFrame, optind, parse_ret, cfg_m, cfg_n, cfg_threads, rejected,
                   helped>>

\* main: m = config.m; n = config.m (config.n in matmult-omp.c); w = n;
\* threads = config.threads; then the matrixes are allocated and multiplied
MainContinue ==
    /\ prog \in Mains /\ main_pc = "returned"
    /\ parse_ret \notin {0, -1}
    /\ m' = cfg_m
    /\ n' = (IF prog = "omp-main" THEN cfg_n ELSE cfg_m)
    /\ w' = (IF prog = "omp-main" THEN cfg_n ELSE cfg_m)
    /\ threads' = cfg_threads
    /\ main_pc' = "malloc"
    /\ UNCHANGED <<prog, mat1, mat2, argv, result, pc, ret, workVars, writers, runVars,
                   junk, oob, mpiVars, clVars, hi, hdi, hki, nb_platforms,
                   nb_devices, nb_kernels, success, finished, pseen, dseen, kseen,
                   held, rfault, hostres, optind, parse_ret, cfg_m, cfg_n,
                   cfg_threads, rejected, helped>>

NextCmdline ==
    \/ CmdHelp
    \/ CmdPrint
    \/ CmdRowSize
    \/ CmdColumnSize
    \/ CmdThreads
    \/ CmdBadOption
    \/ CmdReturn
    \/ MainExitSuccess
    \/ MainExitFailure
    \/ MainContinue

SpecCmdline == InitCmdline /\ [][NextCmdline]_vars

---------------------------------------------------------------------------
(* Claims about the pthread program *)

\* The product the sequential mat_mult leaves on the same operands.
Reference == mat_mult(mat1, mat2, Fill(m * n, 0), m, n, w)

PthreadReturned0 == prog = "pthread" /\ pc = "returned" /\ ret = "0"

\* C1: for every M >= 2 and T >= 1, when mat_mult_pthread returns 0 every
\* output cell has been written and holds the dot product of its row and
\* column, i.e. result equals what the sequential mat_mult computes.
C1_PthreadEqualsSequential ==
    (PthreadReturned0 /\ m >= 2) =>
        /\ \A c \in Cells : writers[c] # {}
        /\ result = Reference

\* C2: for every M >= 1 and T >= 1 the union of the row ranges iterated by
\* the T workers is exactly {0, ..., M-1}: no output row is left unassigned.
C2_RowsCovered ==
    (prog = "pthread" /\ pc = "join") =>
        UNION {WorkRows(idx, m, threads) : idx \in Workers} = 0 .. m - 1

\* C3: the row ranges of any two distinct worker indices are disjoint (they
\* depend on M and T only, so they are compared once, when the call is
\* entered), and as long as the workers' descriptors are alive (the call is in
\* progress or has returned 0) no output cell is written by two different
\* workers.
C3_NoSharedRow ==
    prog = "pthread" =>
        /\ ~DescriptorDead => \A c \in Cells : Cardinality(writers[c]) <= 1
        /\ pc = "entry" =>
              \A a, b \in Workers :
                  a # b => WorkRows(a, m, threads) \cap WorkRows(b, m, threads) = {}

\* C3 witness: a finished call in which two different workers each wrote
\* cells of the output.
C3_Witness ==
    /\ PthreadReturned0
    /\ \E a, b \in Workers : \E c1, c2 \in Cells :
          a # b /\ writers[c1] = {a} /\ writers[c2] = {b}

\* C8: two runs of mat_mult_pthread with the same mat1, mat2, M and T leave
\* identical result matrices, whatever the result buffer held before each run.
C8_SecondRunSameResult ==
    (PthreadReturned0 /\ m >= 2 /\ run = 2) => result = first

\* C11: mat_mult_pthread returns 0 only after every worker it created has
\* terminated: in a state where the call has returned 0 all T workers were
\* created and joined and none is running, so none can still write result.
C11_ReturnAfterWorkersDone ==
    PthreadReturned0 =>
        /\ created = threads /\ joined = threads
        /\ \A idx \in Workers : wstate[idx] = "done"

\* C11 witness: a call with several workers has returned 0 after they wrote
\* the whole of result.
C11_Witness ==
    /\ PthreadReturned0 /\ threads >= 2
    /\ \A c \in Cells : writers[c] # {}

\* C12: when pthread_create fails and mat_mult_pthread returns -1, none of
\* the workers started before is still running (reading its descriptor or
\* able to write result).
C12_NoPartialBatch ==
    DescriptorDead => \A idx \in Workers : wstate[idx] # "run"

\* the rows the claim gives worker idx: idx*step <= r < min((idx+1)*step, M)
\* with step = max(1, floor(M / T))
C13_Rows(idx) ==
    LET step == IF m \div threads >= 1 THEN m \div threads ELSE 1
    IN  {r \in 0 .. m - 1 : idx * step <= r /\ r < (idx + 1) * step}

\* C13: while its descriptor is alive worker idx writes only cells of the
\* rows idx*step <= r < min((idx+1)*step, M), step = max(1, floor(M / T)); when
\* the call has returned 0 it has written all of them; with T > M workers
\* 0..M-1 have written one row each and workers idx >= M nothing.
C13_WorkerWritesItsRows ==
    (prog = "pthread" /\ ~DescriptorDead) =>
        /\ \A c \in Cells : \A idx \in writers[c] : (c \div m) \in C13_Rows(idx)
        /\ PthreadReturned0 =>
              /\ \A c \in Cells :
                    writers[c] = {idx \in Workers : (c \div m) \in C13_Rows(idx)}
              /\ threads > m =>
                    \A idx \in Workers :
                        {c \in Cells : idx \in writers[c]} =
                            IF idx < m THEN {c \in Cells : c \div m = idx} ELSE {}

\* C13 witness: a call with more workers than rows has returned 0.
C13_Witness ==
    PthreadReturned0 /\ threads > m /\ m >= 2

\* the rows that are in the range of some worker of the call
C27_OwnedRows == UNION {C13_Rows(idx) : idx \in Workers}

\* C27: in every step taken while a mat_mult_pthread call is in progress
\* (from its entry to its return), mat1 and mat2 are left as they are, a cell
\* of result that changes is stored by one worker and lies in a row of that
\* worker's range, and a cell no worker has stored (as are, then, all cells
\* of the rows in no worker's range) holds the value it had before the call.
C27_WorkersWriteOwnRowsOnly ==
    [][(prog = "pthread" /\ ~DescriptorDead /\ run' = run) =>
          /\ mat1' = mat1 /\ mat2' = mat2
          /\ \A c \in Cells :
                IF result'[c] # result[c] \/ writers'[c] # writers[c]
                THEN \E idx \in Workers :
                        /\ writers'[c] = writers[c] \cup {idx}
                        /\ (c \div m) \in C13_Rows(idx)
                ELSE writers[c] = {} => result'[c] = junk]_vars

\* C27 witness: a call has returned 0 with a row that is in no worker's range
\* and a row that a worker has written.
C27_Witness ==
    /\ PthreadReturned0
    /\ \E c \in Cells : (c \div m) \notin C27_OwnedRows
    /\ \E c \in Cells : writers[c] # {}

---------------------------------------------------------------------------
(* Claims about the MPI program *)

MpiAllReturned0 == prog = "mpi" /\ \A r \in Ranks : rret[r] = "0"

\* C4: for every world size W and every M divisible by W, once mat_mult_mpi
\* has returned 0 on all ranks, rank 0's result equals the sequential
\* product of rank 0's original mat1 and mat2, and its rows
\* [r*M/W, (r+1)*M/W) are the slice computed by rank r, in rank order.
C4_GatheredEqualsSequential ==
    MpiAllReturned0 =>
        /\ m % world_size = 0
        /\ rmat3[0] = Reference
        /\ \A r \in Ranks :
              Slice(rmat3[0], r * nb_subelements(m, n, world_size),
                    nb_subelements(m, n, world_size)) = chanGather[r]

\* C4 witness: two ranks, each of which computed a slice, have returned 0.
C4_Witness == MpiAllReturned0 /\ world_size >= 2

\* C10: if M % world_size != 0, every rank that reaches the check calls
\* MPI_Abort: no rank allocates a matrix, enters mat_mult_mpi or any
\* collective (Scatter, Bcast, Gather, Barrier), or computes anything.
C10_AbortBeforeAnyWork ==
    (prog = "mpi" /\ m % world_size # 0) =>
        /\ allocd = {}
        /\ \A r \in Ranks :
              /\ rpc[r] \in {"start", "aborted", "killed"}
              /\ clog[r] = << >>
              /\ rret[r] = "none"
              /\ ~Has(rmat1[r]) /\ ~Has(rmat3[r]) /\ ~Has(res[r])

\* C10 witness: a row count not divisible by the world size, and a rank other
\* than the root has called MPI_Abort.
C10_Witness ==
    /\ prog = "mpi" /\ m % world_size # 0
    /\ \E r \in Ranks : r # 0 /\ rpc[r] = "aborted"

\* the ranks whose arrival rank q needs to get out of the collective it is in
MpiWaitsFor(q) ==
    IF rpc[q] = "scatter" /\ q # 0 /\ ~Has(chanScatter[q]) THEN {0}
    ELSE IF rpc[q] = "bcast" /\ q # 0 /\ ~Has(chanBcast[q]) THEN {0}
    ELSE IF rpc[q] = "gather" /\ q = 0
         THEN {p \in Ranks \ {0} : ~Has(chanGather[p])}
    ELSE IF rpc[q] = "barrier"
         THEN {p \in Ranks : rpc[p] # "barrier" /\ rret[p] # "0"}
    ELSE {}

\* C15: if mat_mult_mpi has returned -1 on some rank, no rank is in
\* MPI_Scatter, MPI_Bcast, MPI_Gather or MPI_Barrier waiting for a rank that
\* failed, and no rank has reported success.
C15_FailureAbortsGroup ==
    (prog = "mpi" /\ \E r \in Ranks : rret[r] = "-1") =>
        \A q \in Ranks :
            /\ \A p \in MpiWaitsFor(q) : rret[p] # "-1"
            /\ rret[q] # "0"

\* C17: whenever mat_mult_mpi has returned on a rank, with 0 or with -1, the
\* partial-result buffer res it allocated has been freed.
C17_ResFreedOnEveryReturn ==
    prog = "mpi" => \A r \in Ranks : rret[r] # "none" => ~Has(res[r])

\* the calls of a mat_mult_mpi that passed its check, as <<kind, root, count>>
\* (root -1: the call has no root), written from M, N and the world size only
C21_Expected ==
    << <<"Scatter", 0, (m * n) \div world_size>>,
       <<"Bcast", 0, m * n>>,
       <<"Multiply", -1, (m \div world_size) * n>>,
       <<"Gather", 0, (m * n) \div world_size>>,
       <<"Barrier", -1, 0>> >>

\* C21: on every rank the calls made so far by mat_mult_mpi are an initial
\* part of Scatter(root 0), Bcast(root 0), local multiply, Gather(root 0),
\* Barrier, with the same roots and counts on every rank; a rank that is
\* about to make one of them has made exactly the ones before it, a rank that
\* returned 0 has made each of them once, and a rank that returned -1 (it
\* did not pass the check) none.
C21_CollectivesInOrder ==
    prog = "mpi" =>
        \A r \in Ranks :
            /\ Len(clog[r]) <= Len(C21_Expected)
            /\ clog[r] = SubSeq(C21_Expected, 1, Len(clog[r]))
            /\ rpc[r] = "scatter" => Len(clog[r]) = 0
            /\ rpc[r] = "bcast" => Len(clog[r]) = 1
            /\ rpc[r] = "compute" => Len(clog[r]) = 2
            /\ rpc[r] = "gather" => Len(clog[r]) = 3
            /\ rpc[r] = "barrier" => Len(clog[r]) = 4
            /\ rret[r] = "0" => clog[r] = C21_Expected
            /\ rret[r] = "-1" => clog[r] = << >>

\* C21 witness: two ranks have returned 0, each after its five calls.
C21_Witness ==
    /\ MpiAllReturned0 /\ world_size >= 2
    /\ \A r \in Ranks : Len(clog[r]) = 5

\* C22: if M is divisible by the world size and n = w, then under fair
\* scheduling of the ranks, unless an allocation fails on some rank (of the
\* matrixes in main or of res in mat_mult_mpi), eventually mat_mult_mpi has
\* returned 0 on every rank.
C22_EveryRankReturns0 ==
    (prog = "mpi" /\ m % world_size = 0 /\ n = w) =>
        <>(\/ MpiAllReturned0
           \/ \E r \in Ranks : rpc[r] = "exited" \/ rret[r] = "-1")

\* C23: when mat_mult_mpi has returned on some rank (the rank goes on to
\* free its matrixes and call MPI_Finalize), every rank has made its
\* MPI_Gather contribution and rank 0 holds the slice of every rank in its
\* result.
C23_NoReturnBeforeGather ==
    (prog = "mpi" /\ \E r \in Ranks : rret[r] # "none") =>
        /\ \A q \in Ranks : Has(chanGather[q])
        /\ \A q \in Ranks :
              Slice(rmat3[0], q * ((m * n) \div world_size), (m * n) \div world_size)
                  = chanGather[q]

---------------------------------------------------------------------------
(* Claims about the OpenCL kernels *)

ClFinished == prog = "cl" /\ pc = "finished"

\* the work-item the global range {M, N} assigns to cell c
ItemOfCell(c) == <<c \div m, c % m>>

\* C5: for a square size M that is not a multiple of BLOCK_SIZE, the
\* block-staged kernels matmult2 and matmult3 leave in every cell (i, j) the
\* value the element-parallel kernel matmult writes there, the dot product
\* of row i of mat1 and column j of mat2.
C5_TiledEqualsNaiveOffBlock ==
    (ClFinished /\ kernel \in {"matmult2", "matmult3"} /\ m % BLOCK_SIZE # 0) =>
        \A c \in DOMAIN result :
            result[c] = Dot(mat1, mat2, c \div m, c % m, n, w)

\* C6: for M a positive multiple of BLOCK_SIZE, whatever order the barriers
\* allowed the work-items to run in, every cell kernel matmult2 has written
\* holds sum over k < M of mat1[i*M+k] * mat2[k*M+j] (wrapping), and once the
\* kernel is finished every cell has been written and nothing was stored
\* outside result.
C6_Matmult2EqualsReference ==
    (prog = "cl" /\ kernel = "matmult2" /\ m % BLOCK_SIZE = 0) =>
        /\ ~oob
        /\ \A c \in DOMAIN result :
              /\ writers[c] # {} =>
                    result[c] = Dot(mat1, mat2, c \div m, c % m, n, w)
              /\ pc = "finished" => writers[c] = {ItemOfCell(c)}

\* C6 witness: matmult2 has finished on a grid of two blocks by two blocks.
C6_Witness ==
    ClFinished /\ kernel = "matmult2" /\ m = 2 * BLOCK_SIZE

\* C7: in kernel matmult, cell i*M+j is written by work-item (i, j) only, with
\* the full dot product of row i of mat1 and column j of mat2; a work-item
\* that has yet to write finds its cell unwritten, a finished kernel has
\* written every cell, and nothing is stored outside result: each cell is
\* written exactly once, whatever the order of the work-items.
C7_MatmultOneWritePerCell ==
    (prog = "cl" /\ kernel = "matmult") =>
        /\ ~oob
        /\ \A c \in DOMAIN result :
              /\ writers[c] \subseteq {ItemOfCell(c)}
              /\ writers[c] # {} => result[c] = Dot(mat1, mat2, c \div m, c % m, n, w)
              /\ pc = "finished" => writers[c] = {ItemOfCell(c)}
        /\ pc = "running" =>
              \A it \in DOMAIN ipc :
                  LET c == ResultIndex(GlobalId(CurGroup[1], it[1]),
                                       GlobalId(CurGroup[2], it[2]), m)
                  IN  (ipc[it] = "write") <=> (writers[c] = {})

\* C7 witness: matmult has finished on a grid of several work-groups.
C7_Witness ==
    ClFinished /\ kernel = "matmult" /\ GroupCount(m) > 1

---------------------------------------------------------------------------
(* Claims about the dimension check of the entry points *)

\* C9: when n != w, no step of mat_mult, mat_mult_omp, mat_mult_pthread or
\* mat_mult_mpi writes a cell of result, starts a worker thread or enters a
\* collective operation, and the call returns -1; when n == w, the step
\* that performs the dimension check never yields -1 (mat_mult_mpi then
\* returns -1 only if its malloc of res failed).
C9_DimensionCheck ==
    [][ /\ prog \in {"c", "omp", "pthread"} =>
            /\ n # w =>
                  /\ result' = result /\ writers' = writers /\ oob' = oob
                  /\ created' = 0 /\ wstate' = wstate
                  /\ pc' = "returned" /\ ret' = "-1"
            /\ (n = w /\ pc = "entry") => ret' # "-1"
        /\ prog = "mpi" =>
            \A r \in Ranks :
                /\ n # w =>
                      /\ Has(rmat3[r]) => rmat3'[r] = rmat3[r]
                      /\ clog'[r] = << >>
                      /\ ~Has(chanScatter'[r]) /\ ~Has(chanBcast'[r])
                      /\ ~Has(chanGather'[r])
                      /\ rpc[r] = "call" =>
                            rpc'[r] = "call" \/ rret'[r] = "-1"
                      /\ rret'[r] # "0"
                /\ (n = w /\ rpc[r] = "call" /\ rret'[r] = "-1") => ~Has(res'[r])
      ]_vars

\* C9 witness: with n != w, one of the single-process entry points has
\* returned -1 with result untouched.
C9_Witness ==
    /\ n # w
    /\ prog \in {"c", "omp", "pthread"}
    /\ pc = "returned" /\ ret = "-1"
    /\ \A c \in DOMAIN writers : writers[c] = {}

---------------------------------------------------------------------------
(* Claims about the OpenCL host function mat_mult_cl *)

HostReturned == prog = "clhost" /\ pc = "returned"

\* C14: mat_mult_cl returns 0 exactly when some kernel run got through the
\* kernel enqueue and the read-back enqueue to clFinish, and -1 when no
\* platform was found or no run got that far; a failure only skips its
\* platform, device or kernel: when a loop is over, its body was entered for
\* every platform, every device of the platform, every kernel of the program.
C14_SuccessIffOneRunFinished ==
    prog = "clhost" =>
        /\ pc = "returned" =>
              /\ ret = "0" <=> finished > 0
              /\ ret = "-1" <=> (nb_platforms = 0 \/ finished = 0)
              /\ pseen = nb_platforms
        /\ (pc = "platform" /\ hi >= nb_platforms) => pseen = nb_platforms
        /\ (pc = "device" /\ hdi >= nb_devices) => dseen = nb_devices
        /\ (pc = "kernel" /\ hki >= nb_kernels) => kseen = nb_kernels

\* C14 witness: with two platforms and attempts skipped, exactly one kernel
\* run finished and mat_mult_cl returned 0.
C14_Witness ==
    HostReturned /\ ret = "0" /\ nb_platforms = 2 /\ finished = 1

\* C16: in mat_mult_cl no resource is released twice, used after its release
\* or lost while live; at the top of every platform iteration none of the
\* iteration's resources is live, at the top of every device iteration none
\* of the queue and the three buffers is, and at the return that follows the
\* platform loop platforms has been freed and nothing is live.
C16_ResourcesReleasedOnce ==
    prog = "clhost" =>
        /\ rfault = {}
        /\ pc = "platform" =>
              \A r \in PlatformResources \cup DeviceResources : held[r] # "live"
        /\ pc = "device" => \A r \in DeviceResources : held[r] # "live"
        /\ (pc = "returned" /\ nb_platforms > 0) =>
              /\ held["platforms"] = "dead"
              /\ \A r \in Resources : held[r] # "live"

\* C16 witness: mat_mult_cl has returned after a platform that ran a kernel to
\* the end and a platform left by continue before it had kernels.
C16_Witness ==
    /\ HostReturned /\ nb_platforms = 2 /\ finished >= 1
    /\ held["devices"] = "dead" /\ held["kernels"] = "null"

---------------------------------------------------------------------------
(* Claims about the OpenCL host function of the int program *)

\* C30: within one platform iteration of mat_mult_cl of the int program, the
\* context, the program and the devices array are each released at most once
\* and never used after their release, whatever the number of devices and
\* whatever opencl_get_kernels answers on each device.  (The queue, the
\* kernels and the buffers are released on paths that release or use none of
\* them a second time, so a fault recorded is a fault of one of the three.)
C30_PlatformHandlesReleasedOnce ==
    prog = "clhost-int" =>
        /\ "double release" \notin rfault
        /\ "use after release" \notin rfault

---------------------------------------------------------------------------
(* Claims about the OpenMP program *)

\* the thread the static schedule gives column j of nn columns in a team of tt:
\* the first nn % tt threads take one column more than the others
C19_Owner(j, nn, tt) ==
    LET q == nn \div tt
        r == nn % tt
    IN  IF j < r * (q + 1) THEN j \div (q + 1) ELSE r + (j - r * (q + 1)) \div q

\* C19: for a square size and n = w, in mat_mult_omp with any team size a cell
\* (i, j) is only ever written by the thread the static schedule gives column
\* j, with the value mat_mult stores there; while a thread is in row i+1 every
\* cell of the rows up to i has been written; the call returns 0 and then
\* every cell has been written by exactly its one owner.
C19_OmpEqualsSequential ==
    (prog = "omp" /\ m = n /\ n = w) =>
        /\ \A c \in Cells :
              /\ writers[c] \subseteq {C19_Owner(c % m, n, threads)}
              /\ writers[c] # {} => result[c] = Dot(mat1, mat2, c \div m, c % m, n, w)
        /\ \A t \in Workers : \A c \in Cells :
              (wstate[t] # "none" /\ c \div m < wrow[t]) => writers[c] # {}
        /\ pc = "returned" =>
              /\ ret = "0"
              /\ \A c \in Cells : Cardinality(writers[c]) = 1

\* C19 witness: a call on a square size with more threads than columns has
\* returned 0, two threads having written cells.
C19_Witness ==
    /\ prog = "omp" /\ pc = "returned" /\ ret = "0"
    /\ m = n /\ threads > n
    /\ \E c1, c2 \in Cells : writers[c1] # {} /\ writers[c2] # {} /\ writers[c1] # writers[c2]

---------------------------------------------------------------------------
(* Claims about the barriers of the block-staged kernels *)

\* the element of mat1 that block step t puts in the entry of local_row of
\* index a * BLOCK_SIZE + b (matmult2) or [a][b] (matmult3)
C24_RowElement(a, b, t) ==
    Rd(mat1, m * BLOCK_SIZE * CurGroup[1] + t * BLOCK_SIZE + a * m + b)

\* the element of mat2 that block step t puts in the entry of local_col of
\* index a * BLOCK_SIZE + b (matmult2, staged transposed) or [a][b] (matmult3)
C24_ColElement(a, b, t) ==
    IF kernel = "matmult2"
    THEN Rd(mat2, BLOCK_SIZE * CurGroup[2] + t * BLOCK_SIZE * w + b * w + a)
    ELSE Rd(mat2, BLOCK_SIZE * CurGroup[2] + t * BLOCK_SIZE * w + a * w + b)

\* the entry (a, b) of the local arrays is staged by a work-item of the group
C24_Staged(a, b) ==
    IF kernel = "matmult2" THEN <<a, b>> \in DOMAIN ipc ELSE <<b, a>> \in DOMAIN ipc

\* C24: in matmult2 and matmult3, in a step in which a work-item runs the
\* multiply loop of block step t, every entry of local_row and local_col it
\* reads (and that a work-item of the group stages) holds the element of
\* block step t; and in a step in which a work-item stores the elements of a
\* block step, no work-item of its group is still before the end of the
\* multiply loop of the block step before.
C24_LocalEntriesOfTheStep ==
    [][\A it \in DOMAIN iter \cap DOMAIN iter' :
          /\ (pc = "running" /\ pc' = "running" /\ iter'[it] = iter[it] + 1) =>
                \A k \in 0 .. BLOCK_SIZE - 1 :
                    IF kernel = "matmult2"
                    THEN /\ C24_Staged(it[1], k) =>
                              local_row[it[1] * BLOCK_SIZE + k] = C24_RowElement(it[1], k, iter[it])
                         /\ C24_Staged(it[2], k) =>
                              local_col[it[2] * BLOCK_SIZE + k] = C24_ColElement(it[2], k, iter[it])
                    ELSE /\ C24_Staged(it[1], k) =>
                              local_row[it[1]][k] = C24_RowElement(it[1], k, iter[it])
                         /\ C24_Staged(k, it[2]) =>
                              local_col[k][it[2]] = C24_ColElement(k, it[2], iter[it])
          /\ (pc = "running" /\ ipc[it] = "stage" /\ ipc'[it] = "acc") =>
                \A u \in DOMAIN iter : iter[u] >= iter[it]]_vars

\* C24 witness: a work-item of a full group has finished the multiply loop
\* of its second block step while a peer has not yet run it.
C24_Witness ==
    /\ prog = "cl" /\ pc = "running" /\ kernel \in {"matmult2", "matmult3"}
    /\ m % BLOCK_SIZE = 0
    /\ \E it, u \in DOMAIN iter : iter[it] = 2 /\ iter[u] = 1 /\ ipc[u] = "acc"

\* the number of loop iterations the claim gives: ceil(M / BLOCK_SIZE)
C25_Steps == IF m % BLOCK_SIZE = 0 THEN m \div BLOCK_SIZE ELSE m \div BLOCK_SIZE + 1

\* the work-items of a group of matmult2 / matmult3 go through the loop in
\* step: none has made more than ceil(M / BLOCK_SIZE) iterations, two of them
\* never differ by more than one iteration, a work-item is out of the loop
\* exactly when it has made all of them, it has returned only when every
\* peer has made all of them too, and it has returned exactly when its cell
\* of result has been written, by itself alone
C25_InStep ==
    (prog = "cl" /\ pc \in {"running", "finished"} /\ kernel \in {"matmult2", "matmult3"}) =>
        \A it \in DOMAIN ipc :
            LET cell == GlobalId(CurGroup[1], it[1]) * m + GlobalId(CurGroup[2], it[2])
                self == <<GlobalId(CurGroup[1], it[1]), GlobalId(CurGroup[2], it[2])>>
            IN  /\ iter[it] <= C25_Steps
                /\ ipc[it] \in {"write", "done"} <=> iter[it] = C25_Steps
                /\ \A u \in DOMAIN ipc : iter[u] - iter[it] <= 1
                /\ ipc[it] = "done" => \A u \in DOMAIN ipc : iter[u] = C25_Steps
                /\ pc = "running" =>
                      writers[cell] = IF ipc[it] = "done" THEN {self} ELSE {}

\* C25: the work-items of a work-group of matmult2 and matmult3 stay in step
\* (same number of iterations, ceil(M / BLOCK_SIZE), and of arrivals at the
\* barriers; nobody leaves while a peer is inside the loop; one write each),
\* and an enqueued kernel runs to its end: every work-item terminates.
C25_SameIterationsAndTermination ==
    /\ []C25_InStep
    /\ (prog = "cl" /\ pc = "running" /\ kernel \in {"matmult2", "matmult3"})
           ~> (pc = "finished")

\* C25 witness: a block-staged kernel with more than one block step has
\* finished, every cell written by its own work-item.
C25_Witness ==
    /\ ClFinished /\ kernel \in {"matmult2", "matmult3"} /\ C25_Steps >= 2
    /\ \A c \in DOMAIN result : writers[c] = {ItemOfCell(c)}

---------------------------------------------------------------------------
(* Claims about the two staging layouts *)

\* local_row and local_col of matmult2 after the copy of block step t in
\* group <<gi, gj>>: entry loci * BLOCK_SIZE + locj is stored by (loci, locj)
C26_Row2(gi, t) ==
    [idx \in 0 .. BLOCK_SIZE * BLOCK_SIZE - 1 |->
        Rd(mat1, Row2Src(Off1(m, gi, t), idx \div BLOCK_SIZE, idx % BLOCK_SIZE, m))]

C26_Col2(gj, t) ==
    [idx \in 0 .. BLOCK_SIZE * BLOCK_SIZE - 1 |->
        Rd(mat2, Col2Src(Off2(w, gj, t), idx \div BLOCK_SIZE, idx % BLOCK_SIZE, w))]

\* local_row and local_col of matmult3 after the copy of block step t:
\* entry [locj][loci] is stored by (loci, locj)
C26_Row3(gi, t) ==
    [a \in 0 .. BLOCK_SIZE - 1 |-> [b \in 0 .. BLOCK_SIZE - 1 |->
        Rd(mat1, Row3Src(Off1(m, gi, t), b, a, m))]]

C26_Col3(gj, t) ==
    [a \in 0 .. BLOCK_SIZE - 1 |-> [b \in 0 .. BLOCK_SIZE - 1 |->
        Rd(mat2, Col3Src(Off2(w, gj, t), b, a, w))]]

\* tmp of work-item (i, j) of matmult2 / matmult3 after block steps t .. last
RECURSIVE C26_Value2(_, _, _, _)
C26_Value2(i, j, t, acc) ==
    IF t >= LoopSteps(m) THEN acc
    ELSE C26_Value2(i, j, t + 1,
             LocalDot2(C26_Row2(i \div BLOCK_SIZE, t), C26_Col2(j \div BLOCK_SIZE, t),
                       i % BLOCK_SIZE, j % BLOCK_SIZE, 0, acc))

RECURSIVE C26_Value3(_, _, _, _)
C26_Value3(i, j, t, acc) ==
    IF t >= LoopSteps(m) THEN acc
    ELSE C26_Value3(i, j, t + 1,
             LocalDot3(C26_Row3(i \div BLOCK_SIZE, t), C26_Col3(j \div BLOCK_SIZE, t),
                       i % BLOCK_SIZE, j % BLOCK_SIZE, 0, acc))

\* the indices of mat1 and of mat2 the work-items of group <<gi, gj>> copy in
\* block step t, in matmult2 and in matmult3
C26_Staged2(gi, gj, t) ==
    << {Row2Src(Off1(m, gi, t), it[1], it[2], m) : it \in AllItems},
       {Col2Src(Off2(w, gj, t), it[1], it[2], w) : it \in AllItems} >>

C26_Staged3(gi, gj, t) ==
    << {Row3Src(Off1(m, gi, t), it[1], it[2], m) : it \in AllItems},
       {Col3Src(Off2(w, gj, t), it[1], it[2], w) : it \in AllItems} >>

\* C26: for M a multiple of BLOCK_SIZE, the value a work-item of matmult2 or
\* of matmult3 stores in a cell is the value matmult2 computes for it and the
\* value matmult3 computes for it, and in every block step of the group that
\* runs the two kernels copy the same elements of mat1 and the same elements
\* of mat2.
C26_LayoutsEquivalent ==
    [][(prog = "cl" /\ kernel \in {"matmult2", "matmult3"} /\ m % BLOCK_SIZE = 0) =>
          \A c \in DOMAIN result :
              writers'[c] # writers[c] =>
                  /\ result'[c] = C26_Value2(c \div m, c % m, 0, 0)
                  /\ result'[c] = C26_Value3(c \div m, c % m, 0, 0)
                  /\ \A t \in 0 .. LoopSteps(m) - 1 :
                        C26_Staged2(CurGroup[1], CurGroup[2], t) =
                            C26_Staged3(CurGroup[1], CurGroup[2], t)]_vars

\* C26 witness: matmult3 has finished on a grid of two blocks by two blocks
\* with operands whose product is not zero everywhere.
C26_Witness ==
    /\ ClFinished /\ kernel = "matmult3" /\ m = 2 * BLOCK_SIZE
    /\ \E c \in DOMAIN result : result[c] # 0

---------------------------------------------------------------------------
(* Claims about the command line *)

\* C28: in the threaded programs, when parse_cmdline has returned after
\* rejecting an option with a bad-argument or bad-option message its result
\* is -1, its result is 0 only if -h was given, and main goes on to allocate
\* the matrixes only with no option rejected, a row and column size of at
\* least 2 and a thread count of at least 1.
C28_RejectedOptionExits ==
    prog \in Mains =>
        /\ (main_pc = "returned" /\ rejected # {}) => parse_ret = -1
        /\ (main_pc = "returned" /\ parse_ret = 0) => helped
        /\ main_pc = "malloc" =>
              /\ rejected = {}
              /\ m >= 2 /\ n >= 2 /\ threads >= 1

---------------------------------------------------------------------------
(* Claims about the indices of the int programs *)

\* the indices of mat1 and of mat2 the k loop of iteration (i, j) reads:
\* mat1[i * w + k] and mat2[k * n + j] for k < w
C29_Mat1Reads(i) == {i * w + k : k \in 0 .. w - 1}

C29_Mat2Reads(j) == {k * n + j : k \in 0 .. w - 1}

\* C29: in the plain C, OpenMP and int pthread programs, called with w = n
\* on matrixes of m * n elements (m, n >= 2), no store goes outside result,
\* every index the iterations (i, j), i < m, j < n, read lies inside mat1 and
\* mat2, and when the call has returned 0 with every row in some worker's
\* range, m * n different cells have been written.  Runs of the pthread
\* program in which a worker reads a descriptor whose lifetime has ended are
\* left out: what they store is the subject of C12.
C29_IndicesInBounds ==
    (/\ prog \in {"c", "omp", "pthread"}
     /\ n = w
     /\ pc # "entry"
     /\ prog = "pthread" => ~DescriptorDead) =>
        /\ ~oob
        /\ \A i \in 0 .. m - 1 : C29_Mat1Reads(i) \subseteq DOMAIN mat1
        /\ \A j \in 0 .. n - 1 : C29_Mat2Reads(j) \subseteq DOMAIN mat2
        /\ (pc = "returned" /\ ret = "0" /\ prog \in {"c", "omp"}) =>
              Cardinality({c \in DOMAIN result : writers[c] # {}}) = m * n

---------------------------------------------------------------------------
(* Claims about the arithmetic of the 64-bit programs *)

\* the sum over k < kk of a[i][k] * b[k][j] as an integer, not wrapped
RECURSIVE C18_ExactSum(_, _, _, _, _)
C18_ExactSum(a, b, i, j, kk) ==
    IF kk = 0 THEN 0
    ELSE C18_ExactSum(a, b, i, j, kk - 1) + a[i * w + (kk - 1)] * b[(kk - 1) * n + j]

\* the value the claim gives cell (i, j): the exact sum modulo the word size
C18_Cell(a, b, i, j) == C18_ExactSum(a, b, i, j, w) % WordMod

\* C18: with n = w, every cell a worker of the pthread program or
\* mat_mult_oacc stores in a step, and every cell the local loop of mat_mult_mpi has
\* stored when the rank reaches MPI_Gather (and so every cell gathered at rank
\* 0), is the exact sum of the products modulo the word size, whether the terms
\* were added with k going up or down; mat_mult_oacc returns 0.
C18_CellsWrapModWord ==
    [][/\ (prog \in {"pthread", "oacc"} /\ n = w) =>
             /\ \A c \in DOMAIN result :
                   (writers'[c] # {} /\ (result'[c] # result[c] \/ writers'[c] # writers[c])) =>
                       /\ result'[c] = C18_Cell(mat1, mat2, c \div m, c % m)
                       /\ result'[c] = DotDown(mat1, mat2, c \div m, c % m, n, w, w)
             /\ (prog = "oacc" /\ pc' = "returned") => ret' = "0"
       /\ (prog = "mpi" /\ n = w) =>
             /\ \A r \in Ranks :
                   (rpc'[r] = "gather" /\ rpc[r] # "gather") =>
                       \A i \in 0 .. (m \div world_size) - 1 : \A j \in 0 .. n - 1 :
                           res'[r][i * m + j] = C18_Cell(rmat1'[r], rmat2'[r], i, j)
             /\ (rret'[0] = "0" /\ rret[0] # "0") =>
                   \A c \in DOMAIN rmat3'[0] :
                       rmat3'[0][c] = C18_Cell(mat1, mat2, c \div m, c % m)]_vars

\* C18 witness: a pthread call has returned 0 with every cell written, one of
\* them from a sum that exceeds the word size.
C18_Witness ==
    /\ PthreadReturned0
    /\ \A c \in Cells : writers[c] # {}
    /\ \E c \in Cells : C18_ExactSum(mat1, mat2, c \div m, c % m, w) >= WordMod

---------------------------------------------------------------------------
(* Claims about the OpenCL path as shipped *)

\* the 64-bit sum over k < kk of mat1[i][k] * mat2[k][j] of the host matrixes
RECURSIVE C20_Reference(_, _, _)
C20_Reference(i, j, kk) ==
    IF kk = 0 THEN 0
    ELSE (C20_Reference(i, j, kk - 1)
          + HostWord(mat1, i * w + (kk - 1)) * HostWord(mat2, (kk - 1) * n + j)) % WideMod

\* C20: when kernel matmult has run over a size that is a multiple of the
\* work-group size and the host has read the result back, every element of
\* the host result matrix is the 64-bit reference product of the host inputs.
C20_ShippedPathEqualsReference ==
    (prog = "cl" /\ pc = "read" /\ kernel = "matmult" /\ m % BLOCK_SIZE = 0) =>
        \A c \in 0 .. m * n - 1 : hostres[c] = C20_Reference(c \div m, c % m, w)

====
